---- MODULE Spec2Model ----
(***************************************************************************)
(* A model of the PowerPC64 (little-endian) macro-assembler of             *)
(* js/src/jit/ppc64: the instruction words each macro-operation appends to *)
(* the buffer, and the effect of executing those words on a processor.     *)
(*                                                                         *)
(* A 64-bit register value is a function from bit positions 0..63 (bit 0   *)
(* is the least significant) to {0,1}, so that no value is ever truncated  *)
(* by the model checker's integers.  A 64-bit input is given as four       *)
(* 16-bit halfwords <<h3, h2, h1, h0>>, most significant first.            *)
(***************************************************************************)
EXTENDS Integers, Sequences, FiniteSets, TLC

VARIABLES
    buffer,     \* m_buffer: the instruction words appended so far
    label,      \* the Label the branch macros refer to
    sites,      \* the branch sites emitted against the label (for the properties)
    req,        \* the macro-operation that was asked for, with its operands
    cpu,        \* per hardware thread: registers, condition register, pc
    mem,        \* the memory bytes the emitted code accesses
    resv        \* per hardware thread: the load-reserve reservation

vars == <<buffer, label, sites, req, cpu, mem, resv>>

-----------------------------------------------------------------------------
(* Bit vectors.                                                            *)

Bits == 0..63

BitOf(n, i) == (n \div (2^i)) % 2

Max(S) == CHOOSE x \in S : \A y \in S : y <= x

Zero64 == [i \in Bits |-> 0]

Ones64 == [i \in Bits |-> 1]

ZeroHalves == <<0, 0, 0, 0>>

OnesHalves == <<65535, 65535, 65535, 65535>>

\* The 64-bit value of four halfwords, h[1] the most significant.
FromHalves(h) == [i \in Bits |-> BitOf(h[4 - (i \div 16)], i % 16)]

\* The halfword (0..65535) at halfword position k (0 = least significant).
HalfOf(v, k) ==
    LET f[i \in 0..16] == IF i = 0 THEN 0 ELSE f[i-1] + v[16*k + i - 1] * 2^(i-1)
    IN  f[16]

ToHalves(v) == <<HalfOf(v, 3), HalfOf(v, 2), HalfOf(v, 1), HalfOf(v, 0)>>

\* The number held in the low k bits of v (k <= 30).
NatOf(v, k) ==
    LET f[i \in 0..k] == IF i = 0 THEN 0 ELSE f[i-1] + v[i-1] * 2^(i-1)
    IN  f[k]

\* A small natural number as a 64-bit value.
FromNat(n) == [i \in Bits |-> IF i < 31 THEN BitOf(n, i) ELSE 0]

ZeroExt(v, w) == [i \in Bits |-> IF i < w THEN v[i] ELSE 0]

SignExt(v, w) == [i \in Bits |-> IF i < w THEN v[i] ELSE v[w-1]]

\* A 16-bit instruction field, sign- or zero-extended.
SImm(imm) == SignExt(FromNat(imm), 16)

UImm(imm) == FromNat(imm)

AndV(a, b) == [i \in Bits |-> a[i] * b[i]]

OrV(a, b) == [i \in Bits |-> IF a[i] + b[i] > 0 THEN 1 ELSE 0]

XorV(a, b) == [i \in Bits |-> (a[i] + b[i]) % 2]

NotV(a) == [i \in Bits |-> 1 - a[i]]

\* x + y + cin modulo 2^64 on halfword tuples, added halfword by halfword.
AddHalves(x, y, cin) ==
    LET s0 == x[4] + y[4] + cin
        s1 == x[3] + y[3] + (s0 \div 65536)
        s2 == x[2] + y[2] + (s1 \div 65536)
        s3 == x[1] + y[1] + (s2 \div 65536)
    IN  <<s3 % 65536, s2 % 65536, s1 % 65536, s0 % 65536>>

\* a + b + cin modulo 2^64.
AddC(a, b, cin) == FromHalves(AddHalves(ToHalves(a), ToHalves(b), cin))

AddV(a, b) == AddC(a, b, 0)

SubV(a, b) == AddC(a, NotV(b), 1)

ShlV(v, n) == [i \in Bits |-> IF i >= n THEN v[i - n] ELSE 0]

ShrV(v, n) == [i \in Bits |-> IF i + n <= 63 THEN v[i + n] ELSE 0]

RotL64(v, n) == [i \in Bits |-> v[(i + 64 - n) % 64]]

\* ROTL32 of the low word, the result repeated in both words.
RotL32(v, n) == [i \in Bits |-> v[((i % 32) + 32 - n) % 32]]

\* MASK(mb, me) of the ISA, whose bit 0 is the most significant.
Mask(mb, me) ==
    [i \in Bits |-> LET x == 63 - i
                    IN  IF mb <= me
                        THEN (IF mb <= x /\ x <= me THEN 1 ELSE 0)
                        ELSE (IF x >= mb \/ x <= me THEN 1 ELSE 0)]

\* Unsigned and signed order on the low w bits.
LtU(a, b, w) ==
    LET d == {i \in 0..(w-1) : a[i] # b[i]}
    IN  d # {} /\ b[Max(d)] = 1

LtS(a, b, w) ==
    IF a[w-1] # b[w-1] THEN a[w-1] = 1 ELSE LtU(a, b, w)

EqW(a, b, w) == \A i \in 0..(w-1) : a[i] = b[i]

\* A condition-register field: LT = 8, GT = 4, EQ = 2, SO = 1.
CrOf(lt, eq) == IF lt THEN 8 ELSE IF eq THEN 2 ELSE 4

CmpS(a, b, w) == CrOf(LtS(a, b, w), EqW(a, b, w))

CmpU(a, b, w) == CrOf(LtU(a, b, w), EqW(a, b, w))

-----------------------------------------------------------------------------
(* Instruction words.  One record per 4-byte word of the buffer: an        *)
(* instruction, a tagged trap, or a raw data word (the next-in-chain link  *)
(* of an unbound branch), written <<op, rt, ra, rb, imm, mb, me>>.         *)
(* Registers are named; "" stands for no register.                        *)

ScratchRegister == "r0"

SecondScratchReg == "r12"

INVALID_OFFSET == -1

Ins(op, rt, ra, rb, imm, mb, me) == <<op, rt, ra, rb, imm, mb, me>>

\* The fields of an instruction word.
Op(i) == i[1]

Rt(i) == i[2]

Ra(i) == i[3]

Rb(i) == i[4]

Imm(i) == i[5]

Mb(i) == i[6]

Me(i) == i[7]

as_nop == Ins("nop", "", "", "", 0, 0, 0)

xs_li(rd, imm) == Ins("li", rd, "", "", imm % 65536, 0, 0)

xs_lis(rd, imm) == Ins("lis", rd, "", "", imm % 65536, 0, 0)

as_addi(rd, ra, imm) == Ins("addi", rd, ra, "", imm % 65536, 0, 0)

as_ori(rd, rs, imm) == Ins("ori", rd, rs, "", imm, 0, 0)

as_oris(rd, rs, imm) == Ins("oris", rd, rs, "", imm, 0, 0)

as_xori(rd, rs, imm) == Ins("xori", rd, rs, "", imm, 0, 0)

as_andi_rc(rd, rs, imm) == Ins("andi.", rd, rs, "", imm, 0, 0)

as_rldicr(rd, rs, sh, me) == Ins("rldicr", rd, rs, "", sh, 0, me)

as_rldicl(rd, rs, sh, mb) == Ins("rldicl", rd, rs, "", sh, mb, 0)

as_rlwinm(rd, rs, sh, mb, me) == Ins("rlwinm", rd, rs, "", sh, mb, me)

\* rldimi ra, rs, sh, mb: the destination ra is in the first register slot.
as_rldimi(ra, rs, sh, mb) == Ins("rldimi", ra, rs, "", sh, mb, 0)

as_add(rd, ra, rb) == Ins("add", rd, ra, rb, 0, 0, 0)

as_subf(rd, ra, rb) == Ins("subf", rd, ra, rb, 0, 0, 0)

as_and(rd, rs, rb) == Ins("and", rd, rs, rb, 0, 0, 0)

as_or(rd, rs, rb) == Ins("or", rd, rs, rb, 0, 0, 0)

as_xor(rd, rs, rb) == Ins("xor", rd, rs, rb, 0, 0, 0)

as_nor(rd, rs, rb) == Ins("nor", rd, rs, rb, 0, 0, 0)

as_slw(rd, rs, rb) == Ins("slw", rd, rs, rb, 0, 0, 0)

as_srw(rd, rs, rb) == Ins("srw", rd, rs, rb, 0, 0, 0)

as_sld(rd, rs, rb) == Ins("sld", rd, rs, rb, 0, 0, 0)

as_srd(rd, rs, rb) == Ins("srd", rd, rs, rb, 0, 0, 0)

as_extsb(rd, rs) == Ins("extsb", rd, rs, "", 0, 0, 0)

as_extsh(rd, rs) == Ins("extsh", rd, rs, "", 0, 0, 0)

as_extsw(rd, rs) == Ins("extsw", rd, rs, "", 0, 0, 0)

\* Compares set condition-register field cr0.
as_cmpd(ra, rb) == Ins("cmpd", "", ra, rb, 0, 0, 0)

as_cmpld(ra, rb) == Ins("cmpld", "", ra, rb, 0, 0, 0)

as_cmpw(ra, rb) == Ins("cmpw", "", ra, rb, 0, 0, 0)

as_cmplw(ra, rb) == Ins("cmplw", "", ra, rb, 0, 0, 0)

as_cmpdi(ra, imm) == Ins("cmpdi", "", ra, "", imm % 65536, 0, 0)

as_cmpwi(ra, imm) == Ins("cmpwi", "", ra, "", imm % 65536, 0, 0)

as_cmplwi(ra, imm) == Ins("cmplwi", "", ra, "", imm, 0, 0)

as_cmpldi(ra, imm) == Ins("cmpldi", "", ra, "", imm, 0, 0)

as_mfcr(rd) == Ins("mfcr", rd, "", "", 0, 0, 0)

xs_mtctr(rs) == Ins("mtctr", "", rs, "", 0, 0, 0)

\* bctr (lk = 0) and bctrl (lk = 1).
as_bctr(lk) == Ins("bctr", "", "", "", lk, 0, 0)

\* b (lk = 0) and bl (lk = 1) with a byte displacement relative to the word itself.
as_b(disp, lk) == Ins("b", "", "", "", disp, lk, 0)

\* bc: branch by disp bytes when condition c holds in field cr.
as_bc(disp, c, cr) == Ins("bc", "", c, "", disp, cr, 0)

as_lwarx(rt, ra, rb) == Ins("lwarx", rt, ra, rb, 0, 0, 0)

as_ldarx(rt, ra, rb) == Ins("ldarx", rt, ra, rb, 0, 0, 0)

as_stwcx(rs, ra, rb) == Ins("stwcx.", rs, ra, rb, 0, 0, 0)

as_stdcx(rs, ra, rb) == Ins("stdcx.", rs, ra, rb, 0, 0, 0)

as_lwsync == Ins("lwsync", "", "", "", 0, 0, 0)

xs_trap == Ins("trap", "", "", "", 0, 0, 0)

xs_trap_tagged(tag) == Ins("trap", "", tag, "", 0, 0, 0)

\* writeInst(x): a raw data word.
writeInst(x) == Ins("word", "", "", "", x, 0, 0)

-----------------------------------------------------------------------------
(* Conditions (Assembler::Condition): a base comparator with the modifier  *)
(* bits ConditionZero and ConditionUnsigned.                               *)

SignedConditions == {"LessThan", "LessThanOrEqual", "GreaterThan", "GreaterThanOrEqual"}

UnsignedConditions == {"Below", "BelowOrEqual", "Above", "AboveOrEqual"}

ZeroConditions == {"Zero", "NonZero", "Signed", "NotSigned"}

SetConditions == {"Equal", "NotEqual"} \cup SignedConditions \cup UnsignedConditions

InvertCondition(c) ==
    CASE c = "Equal" -> "NotEqual"
      [] c = "NotEqual" -> "Equal"
      [] c = "LessThan" -> "GreaterThanOrEqual"
      [] c = "LessThanOrEqual" -> "GreaterThan"
      [] c = "GreaterThan" -> "LessThanOrEqual"
      [] c = "GreaterThanOrEqual" -> "LessThan"
      [] c = "Below" -> "AboveOrEqual"
      [] c = "BelowOrEqual" -> "Above"
      [] c = "Above" -> "BelowOrEqual"
      [] c = "AboveOrEqual" -> "Below"
      [] c = "Zero" -> "NonZero"
      [] c = "NonZero" -> "Zero"
      [] c = "Signed" -> "NotSigned"
      [] c = "NotSigned" -> "Signed"

\* Whether a bc on condition c is taken, given the 4-bit field f it tests.
CondHolds(c, f) ==
    LET lt == BitOf(f, 3) = 1
        gt == BitOf(f, 2) = 1
        eq == BitOf(f, 1) = 1
    IN  CASE c \in {"Equal", "Zero"} -> eq
          [] c \in {"NotEqual", "NonZero"} -> ~eq
          [] c \in {"LessThan", "Below", "Signed"} -> lt
          [] c \in {"GreaterThan", "Above"} -> gt
          [] c \in {"LessThanOrEqual", "BelowOrEqual"} -> ~gt
          [] c \in {"GreaterThanOrEqual", "AboveOrEqual", "NotSigned"} -> ~lt
          [] c = "SOBit" -> BitOf(f, 0) = 1

-----------------------------------------------------------------------------
(* The processor.  A hardware thread is a record: regs (a function from    *)
(* register names to values, each held as four halfwords), cr (the eight   *)
(* 4-bit condition fields, cr0 first), ctr, lr, and pc, the 1-based index  *)
(* of the next word of the buffer.                                         *)

\* The shift amount a shift instruction reads from rb: its low k bits.
ShAmt(v, k) == NatOf(v, k)

\* The value mfcr leaves in a register: the 32 condition bits, cr0 on top.
CrWord(cr) == [i \in Bits |-> IF i < 32 THEN BitOf(cr[8 - (i \div 4)], i % 4) ELSE 0]

SetCr0(cr, f) == [cr EXCEPT ![1] = f]

\* The effect of one register-to-register instruction on a thread.
ExecReg(i, c) ==
    LET R(r) == FromHalves(c.regs[r])
        W(v) == [c EXCEPT !.regs[Rt(i)] = ToHalves(v), !.pc = c.pc + 1]
        WH(h) == [c EXCEPT !.regs[Rt(i)] = h, !.pc = c.pc + 1]
        F(f) == [c EXCEPT !.cr = SetCr0(c.cr, f), !.pc = c.pc + 1]
    IN  CASE Op(i) \in {"nop", "lwsync"} -> [c EXCEPT !.pc = c.pc + 1]
          [] Op(i) = "li"     -> W(SImm(Imm(i)))
          [] Op(i) = "lis"    -> W(ShlV(SImm(Imm(i)), 16))
          [] Op(i) = "addi"   -> WH(AddHalves(c.regs[Ra(i)], ToHalves(SImm(Imm(i))), 0))
          [] Op(i) = "ori"    -> W(OrV(R(Ra(i)), UImm(Imm(i))))
          [] Op(i) = "oris"   -> W(OrV(R(Ra(i)), ShlV(UImm(Imm(i)), 16)))
          [] Op(i) = "xori"   -> W(XorV(R(Ra(i)), UImm(Imm(i))))
          [] Op(i) = "andi."  ->
                LET v == AndV(R(Ra(i)), UImm(Imm(i)))
                IN  [c EXCEPT !.regs[Rt(i)] = ToHalves(v), !.pc = c.pc + 1,
                              !.cr = SetCr0(c.cr, CmpS(v, Zero64, 64))]
          [] Op(i) = "rldicr" -> W(AndV(RotL64(R(Ra(i)), Imm(i)), Mask(0, Me(i))))
          [] Op(i) = "rldicl" -> W(AndV(RotL64(R(Ra(i)), Imm(i)), Mask(Mb(i), 63)))
          [] Op(i) = "rldimi" ->
                LET m == Mask(Mb(i), 63 - Imm(i))
                IN  W(OrV(AndV(RotL64(R(Ra(i)), Imm(i)), m), AndV(R(Rt(i)), NotV(m))))
          [] Op(i) = "rlwinm" -> W(AndV(RotL32(R(Ra(i)), Imm(i)), Mask(Mb(i) + 32, Me(i) + 32)))
          [] Op(i) = "add"    -> WH(AddHalves(c.regs[Ra(i)], c.regs[Rb(i)], 0))
          [] Op(i) = "subf"   -> WH(AddHalves(c.regs[Rb(i)], ToHalves(NotV(R(Ra(i)))), 1))
          [] Op(i) = "and"    -> W(AndV(R(Ra(i)), R(Rb(i))))
          [] Op(i) = "or"     -> W(OrV(R(Ra(i)), R(Rb(i))))
          [] Op(i) = "xor"    -> W(XorV(R(Ra(i)), R(Rb(i))))
          [] Op(i) = "nor"    -> W(NotV(OrV(R(Ra(i)), R(Rb(i)))))
          [] Op(i) = "slw"    ->
                LET n == ShAmt(R(Rb(i)), 6)
                IN  W(IF n >= 32 THEN Zero64 ELSE ZeroExt(ShlV(R(Ra(i)), n), 32))
          [] Op(i) = "srw"    ->
                LET n == ShAmt(R(Rb(i)), 6)
                IN  W(IF n >= 32 THEN Zero64 ELSE ShrV(ZeroExt(R(Ra(i)), 32), n))
          [] Op(i) = "sld"    ->
                LET n == ShAmt(R(Rb(i)), 7)
                IN  W(IF n >= 64 THEN Zero64 ELSE ShlV(R(Ra(i)), n))
          [] Op(i) = "srd"    ->
                LET n == ShAmt(R(Rb(i)), 7)
                IN  W(IF n >= 64 THEN Zero64 ELSE ShrV(R(Ra(i)), n))
          [] Op(i) = "extsb"  -> W(SignExt(R(Ra(i)), 8))
          [] Op(i) = "extsh"  -> W(SignExt(R(Ra(i)), 16))
          [] Op(i) = "extsw"  -> W(SignExt(R(Ra(i)), 32))
          [] Op(i) = "cmpd"   -> F(CmpS(R(Ra(i)), R(Rb(i)), 64))
          [] Op(i) = "cmpld"  -> F(CmpU(R(Ra(i)), R(Rb(i)), 64))
          [] Op(i) = "cmpw"   -> F(CmpS(R(Ra(i)), R(Rb(i)), 32))
          [] Op(i) = "cmplw"  -> F(CmpU(R(Ra(i)), R(Rb(i)), 32))
          [] Op(i) = "cmpdi"  -> F(CmpS(R(Ra(i)), SImm(Imm(i)), 64))
          [] Op(i) = "cmpwi"  -> F(CmpS(R(Ra(i)), SImm(Imm(i)), 32))
          [] Op(i) = "cmplwi" -> F(CmpU(R(Ra(i)), UImm(Imm(i)), 32))
          [] Op(i) = "cmpldi" -> F(CmpU(R(Ra(i)), UImm(Imm(i)), 64))
          [] Op(i) = "mfcr"   -> W(CrWord(c.cr))
          [] Op(i) = "mtctr"  -> [c EXCEPT !.ctr = c.regs[Ra(i)], !.pc = c.pc + 1]
          [] Op(i) = "bc"     ->
                [c EXCEPT !.pc = IF CondHolds(Ra(i), c.cr[Mb(i) + 1])
                                 THEN c.pc + (Imm(i) \div 4) ELSE c.pc + 1]
          [] Op(i) = "b"      ->
                [c EXCEPT !.pc = c.pc + (Imm(i) \div 4),
                          !.lr = IF Mb(i) = 1 THEN c.pc + 1 ELSE c.lr]

RegOps == {"nop", "lwsync", "li", "lis", "addi", "ori", "oris", "xori", "andi.", "rldicr",
           "rldicl", "rldimi", "rlwinm", "add", "subf", "and", "or", "xor", "nor", "slw", "srw",
           "sld", "srd", "extsb", "extsh", "extsw", "cmpd", "cmpld", "cmpw", "cmplw",
           "cmpdi", "cmpwi", "cmplwi", "cmpldi", "mfcr", "mtctr", "bc", "b"}

-----------------------------------------------------------------------------
(* Immediate materialization.                                              *)

\* ma_li(Register, int64_t): value is <<h3, h2, h1, h0>>.
ma_li(dest, value) ==
    LET h3 == value[1]
        h2 == value[2]
        h1 == value[3]
        h0 == value[4]
        \* value > -32769 && value < 32768
        fits16 == \/ h3 = 0 /\ h2 = 0 /\ h1 = 0 /\ h0 < 32768
                  \/ h3 = 65535 /\ h2 = 65535 /\ h1 = 65535 /\ h0 >= 32768
        \* (bits & 0xffffffff0000ffff) is 0 or 0xffffffff00000000
        fitsHigh == h0 = 0 /\ ((h3 = 0 /\ h2 = 0) \/ (h3 = 65535 /\ h2 = 65535))
        loweronly == h3 = 0 /\ h2 = 0
        upper == IF h3 # 0
                 THEN <<xs_lis(dest, h3)>>
                      \o (IF h2 # 0 THEN <<as_ori(dest, dest, h2)>> ELSE <<>>)
                      \o <<as_rldicr(dest, dest, 32, 31)>>
                 ELSE IF h2 # 0
                 THEN <<xs_li(dest, h2), as_rldicr(dest, dest, 32, 31)>>
                 ELSE <<>>
        lower == IF h1 # 0
                 THEN <<IF loweronly THEN xs_lis(dest, h1) ELSE as_oris(dest, dest, h1)>>
                      \o (IF h0 # 0 THEN <<as_ori(dest, dest, h0)>> ELSE <<>>)
                 ELSE IF h0 # 0
                 THEN <<IF loweronly THEN xs_li(dest, h0) ELSE as_ori(dest, dest, h0)>>
                 ELSE <<>>
    IN  IF fits16 THEN <<xs_li(dest, h0)>>
        ELSE IF fitsHigh THEN <<xs_lis(dest, h1)>>
        ELSE upper \o lower

\* A variant that drops the or-immediates whose operand is zero.
ma_liPatchable_skipzero(dest, value) ==
    <<xs_lis(dest, value[1])>>
    \o (IF value[2] # 0 THEN <<as_ori(dest, dest, value[2])>> ELSE <<>>)
    \o <<as_rldicr(dest, dest, 32, 31)>>
    \o (IF value[3] # 0 THEN <<as_oris(dest, dest, value[3])>> ELSE <<>>)
    \o (IF value[4] # 0 THEN <<as_ori(dest, dest, value[4])>> ELSE <<>>)

\* ma_liPatchable(Register, ImmWord): always the long form.
ma_liPatchable(dest, value) ==
    <<xs_lis(dest, value[1]),
      as_ori(dest, dest, value[2]),
      as_rldicr(dest, dest, 32, 31),
      as_oris(dest, dest, value[3]),
      as_ori(dest, dest, value[4])>>

\* ma_liPatchable(Register, ImmPtr)
ma_liPatchable_ImmPtr(dest, value) == ma_liPatchable(dest, value)

\* ma_liPatchable(Register, Imm32): the lis/ori pair; value is <<h1, h0>>.
ma_liPatchable_Imm32(dest, value) ==
    <<xs_lis(dest, value[1]), as_ori(dest, dest, value[2])>>

-----------------------------------------------------------------------------
(* Executing the buffer.                                                   *)

Running(t) == cpu[t].pc \in 1..Len(buffer)

Finished(t) == cpu[t].pc = Len(buffer) + 1

\* A thread over the registers rs, each holding v, at the first word.
Thread(rs, v) ==
    [regs |-> [r \in rs |-> v], cr |-> <<0, 0, 0, 0, 0, 0, 0, 0>>, ctr |-> ZeroHalves, lr |-> 0, pc |-> 1]

\* One register-to-register instruction of thread t.
StepReg(t) ==
    /\ Running(t)
    /\ Op(buffer[cpu[t].pc]) \in RegOps
    /\ cpu' = [cpu EXCEPT ![t] = ExecReg(buffer[cpu[t].pc], cpu[t])]
    /\ UNCHANGED <<buffer, label, sites, req, mem, resv>>

NoLabel == [bound |-> FALSE, used |-> FALSE, offset |-> INVALID_OFFSET]

-----------------------------------------------------------------------------
(* Specification SpecLi: one immediate load is emitted, then executed.     *)

\* The halfwords the inputs are built from: both sides of the 16-bit sign boundary.
Halfwords == {0, 1, 32767, 32768, 65535}

\* The number of words that may already be in the buffer.
MaxPrefix == 1

LiDest == "r3"

InitLi ==
    /\ \E n \in 0..MaxPrefix : buffer = [k \in 1..n |-> as_nop]
    /\ label = NoLabel
    /\ sites = {}
    /\ req = [op |-> "none", value |-> <<0, 0, 0, 0>>, start |-> 0]
    /\ \E v \in {ZeroHalves, OnesHalves} : cpu = [t \in {1} |-> Thread({LiDest}, v)]
    /\ mem = <<>>
    /\ resv = <<>>

LiAppend(op, value, words) ==
    /\ req.op = "none"
    /\ buffer' = buffer \o words
    /\ req' = [op |-> op, value |-> value, start |-> Len(buffer)]
    /\ UNCHANGED <<label, sites, cpu, mem, resv>>

EmitLi ==
    \E value \in [1..4 -> Halfwords] :
        LiAppend("ma_li", value, ma_li(LiDest, value))

EmitLiPatchable ==
    \E value \in [1..4 -> Halfwords] :
        LiAppend("ma_liPatchable", value, ma_liPatchable(LiDest, value))

EmitLiPatchablePtr ==
    \E value \in [1..4 -> Halfwords] :
        LiAppend("ma_liPatchable_ImmPtr", value, ma_liPatchable_ImmPtr(LiDest, value))

EmitLiPatchable32 ==
    \E value \in [1..2 -> Halfwords] :
        LiAppend("ma_liPatchable_Imm32", <<0, 0, value[1], value[2]>>,
                 ma_liPatchable_Imm32(LiDest, value))

ExecLi == req.op # "none" /\ StepReg(1)

NextLi == EmitLi \/ EmitLiPatchable \/ EmitLiPatchablePtr \/ EmitLiPatchable32 \/ ExecLi

SpecLi == InitLi /\ [][NextLi]_vars

\* C1: executing the words ma_li(dest, V) emitted leaves dest equal to V.
LiRoundTrip ==
    (req.op = "ma_li" /\ Finished(1)) => cpu[1].regs[LiDest] = req.value

\* C2 as stated: every overload of ma_liPatchable appends exactly 5 words.
PatchableAlwaysFive ==
    req.op \in {"ma_liPatchable", "ma_liPatchable_ImmPtr", "ma_liPatchable_Imm32"}
        => Len(buffer) - req.start = 5

\* C2 as amended: the ImmWord and ImmPtr overloads append exactly 5 words and
\* the Imm32 overload exactly 2, for every input value including zero.
PatchableFixedLength ==
    /\ req.op \in {"ma_liPatchable", "ma_liPatchable_ImmPtr"} => Len(buffer) - req.start = 5
    /\ req.op = "ma_liPatchable_Imm32" => Len(buffer) - req.start = 2

\* A patchable load of zero was appended behind a word already in the buffer.
PatchableZeroEmitted ==
    /\ req.op = "ma_liPatchable"
    /\ req.value = <<0, 0, 0, 0>>
    /\ req.start = 1
    /\ Len(buffer) = 6

-----------------------------------------------------------------------------
(* Labels and branches.  Offsets are byte offsets into the buffer.  A word *)
(* "other" stands for a run of unrelated code of the given byte length, so *)
(* that a label can lie outside the range of a relative branch.            *)

as_other(nbytes) == Ins("other", "", "", "", nbytes, 0, 0)

SizeOf(w) == IF Op(w) = "other" THEN Imm(w) ELSE 4

\* The byte offset of the word at index k; OffsetOf(buf, Len(buf) + 1) is nextOffset().
OffsetOf(buf, k) ==
    LET others == {j \in 1..(k-1) : Op(buf[j]) = "other"}
        sizes == {SizeOf(buf[j]) : j \in others}
        count(n) == Cardinality({j \in others : SizeOf(buf[j]) = n})
        sum[S \in SUBSET sizes] ==
            IF S = {} THEN 0
            ELSE LET n == CHOOSE x \in S : TRUE IN n * count(n) + sum[S \ {n}]
    IN  4 * (k - 1 - Cardinality(others)) + sum[sizes]

nextOffset(buf) == OffsetOf(buf, Len(buf) + 1)

\* The index of the word that starts at byte offset o.
IndexAt(buf, o) == CHOOSE k \in 1..Len(buf) : OffsetOf(buf, k) = o

\* The displacement range of bc (14-bit BD field, in words).
BOffImm16_IsInSignedRange(offset) == offset >= -32768 /\ offset <= 32767

\* BOffImm16(offset).encode(): the 16 bits the BD field of bc keeps of the
\* displacement, read back as the processor reads them, sign-extended.
BOffImm16_encode(offset) == ((offset + 32768) % 65536) - 32768

\* The displacement range of b (24-bit LI field, in words).
JOffImm26_IsInRange(offset) == offset >= -33554432 /\ offset <= 33554431

InvalidHalves == OnesHalves

\* Label::use(offset): the label is unbound and offset is the new head of its chain.
LabelUse(l, offset) == [bound |-> FALSE, used |-> TRUE, offset |-> offset]

nextInChain(l) == IF l.used THEN l.offset ELSE INVALID_OFFSET

\* The long-branch stanza: load the target, move it to CTR, branch (lk: and link).
LongStanza(lk) ==
    ma_liPatchable(SecondScratchReg, InvalidHalves)
    \o <<xs_mtctr(SecondScratchReg), as_bctr(lk)>>

\* What a branch macro does: the words it appends and the label it leaves.
Emitted(words, l) == [words |-> words, label |-> l]

\* A variant of ma_bc that reserves four words, not five, behind the chain
\* word of the long form for an unbound label.
ma_bc_cr_fournops(buf, l, cr, c, jumpKind) ==
    LET here == nextOffset(buf)
        offset == l.offset - here
        kind == IF l.bound /\ BOffImm16_IsInSignedRange(offset) THEN "ShortJump" ELSE jumpKind
    IN  IF l.bound
        THEN IF kind = "ShortJump"
             THEN Emitted(<<as_bc(BOffImm16_encode(offset), c, cr)>>, l)
             ELSE Emitted(<<as_bc(8 * 4, InvertCondition(c), cr)>> \o LongStanza(0), l)
        ELSE IF kind = "ShortJump"
             THEN Emitted(<<as_bc(4, c, cr), writeInst(nextInChain(l))>>, LabelUse(l, here))
             ELSE Emitted(<<as_bc(8 * 4, InvertCondition(c), cr),
                            xs_trap_tagged("LongJumpTag"),
                            writeInst(nextInChain(l)),
                            as_nop, as_nop, as_nop, as_nop>>,
                          LabelUse(l, here + 4))

\* ma_bc(CRegisterID, Condition, Label*, JumpKind)
ma_bc_cr(buf, l, cr, c, jumpKind) ==
    LET here == nextOffset(buf)
        offset == l.offset - here
        kind == IF l.bound /\ BOffImm16_IsInSignedRange(offset) THEN "ShortJump" ELSE jumpKind
    IN  IF l.bound
        THEN IF kind = "ShortJump"
             THEN Emitted(<<as_bc(BOffImm16_encode(offset), c, cr)>>, l)
             ELSE Emitted(<<as_bc(8 * 4, InvertCondition(c), cr)>> \o LongStanza(0), l)
        ELSE IF kind = "ShortJump"
             THEN Emitted(<<as_bc(4, c, cr), writeInst(nextInChain(l))>>, LabelUse(l, here))
             ELSE Emitted(<<as_bc(8 * 4, InvertCondition(c), cr),
                            xs_trap_tagged("LongJumpTag"),
                            writeInst(nextInChain(l)),
                            as_nop, as_nop, as_nop, as_nop, as_nop>>,
                          LabelUse(l, here + 4))

\* ma_b(Label*, JumpKind)
ma_b(buf, l, jumpKind) ==
    LET offset == nextOffset(buf) - l.offset
    IN  IF ~l.bound
        THEN IF jumpKind = "ShortJump"
             THEN Emitted(<<xs_trap_tagged("StaticShortJumpTag")>>, l)
             ELSE Emitted(ma_liPatchable(ScratchRegister, InvalidHalves)
                          \o <<xs_trap_tagged("LongJumpTag"), xs_trap>>, l)
        ELSE IF jumpKind = "ShortJump" \/ JOffImm26_IsInRange(offset)
             THEN Emitted(<<as_b(offset, 0)>>, l)
             ELSE Emitted(LongStanza(0), l)

\* A variant of ma_bal whose short form is the bl alone.
ma_bal_nopad(buf, l) ==
    IF l.bound /\ JOffImm26_IsInRange((nextOffset(buf) + 6 * 4) - l.offset)
    THEN Emitted(<<as_b((nextOffset(buf) + 6 * 4) - l.offset, 1)>>, l)
    ELSE Emitted(LongStanza(1), l)

\* ma_bal(Label*)
ma_bal(buf, l) ==
    LET dest == nextOffset(buf)
        offset == (dest + 6 * 4) - l.offset
    IN  IF l.bound
        THEN IF JOffImm26_IsInRange(offset)
             THEN Emitted(<<as_nop, as_nop, as_nop, as_nop, as_nop, as_nop,
                            as_b(offset, 1)>>, l)
             ELSE Emitted(LongStanza(1), l)
        ELSE Emitted(<<xs_trap_tagged("CallTag"),
                       writeInst(nextInChain(l)),
                       as_nop, as_nop, as_nop, as_nop, as_nop>>,
                     LabelUse(l, dest))

-----------------------------------------------------------------------------
(* Assembler::bind: the label takes the offset target and every site on    *)
(* its chain is rewritten to its final form.                               *)

Patch(buf, k, words) ==
    [j \in 1..Len(buf) |->
        IF j >= k /\ j < k + Len(words) THEN words[j - k + 1] ELSE buf[j]]

\* The chain link stored in the word behind the site at offset o.
ChainNext(buf, o) == Imm(buf[IndexAt(buf, o) + 1])

RECURSIVE ChainSites(_, _)
ChainSites(buf, o) ==
    IF o = INVALID_OFFSET THEN {} ELSE {o} \cup ChainSites(buf, ChainNext(buf, o))

LoadTarget(target) == ma_liPatchable(SecondScratchReg, ToHalves(FromNat(target)))

\* The final form of the site at offset o.
BindSite(buf, o, target) ==
    LET k == IndexAt(buf, o)
        w == buf[k]
    IN  IF Op(w) = "bc"
        THEN Patch(buf, k, <<as_bc(target - o, Ra(w), Mb(w)), as_nop>>)
        ELSE IF Ra(w) = "LongJumpTag"
        THEN IF BOffImm16_IsInSignedRange(target - (o - 4))
             THEN Patch(buf, k - 1,
                        <<as_bc(target - (o - 4), InvertCondition(Ra(buf[k-1])), Mb(buf[k-1])),
                          as_nop, as_nop, as_nop, as_nop, as_nop, as_nop, as_nop>>)
             ELSE Patch(buf, k, LoadTarget(target) \o <<xs_mtctr(SecondScratchReg), as_bctr(0)>>)
        ELSE IF JOffImm26_IsInRange(target - (o + 6 * 4))
             THEN Patch(buf, k, <<as_nop, as_nop, as_nop, as_nop, as_nop, as_nop,
                                  as_b(target - (o + 6 * 4), 1)>>)
             ELSE Patch(buf, k, LoadTarget(target) \o <<xs_mtctr(SecondScratchReg), as_bctr(1)>>)

RECURSIVE BindChain(_, _, _)
BindChain(buf, o, target) ==
    IF o = INVALID_OFFSET THEN buf
    ELSE BindChain(BindSite(buf, o, target), ChainNext(buf, o), target)

bind(buf, l, target) == BindChain(buf, nextInChain(l), target)

\* A short-form site can only be bound to a target its displacement reaches.
BindReaches(buf, l, target) ==
    \A o \in ChainSites(buf, nextInChain(l)) :
        Op(buf[IndexAt(buf, o)]) = "bc" => BOffImm16_IsInSignedRange(target - o)

-----------------------------------------------------------------------------
(* Specification SpecAsm: branches to one label are assembled, between     *)
(* runs of other code, and the label is bound at some point.               *)

\* The number of assembler calls.
MaxEmit == 4

\* Byte lengths of other code: beyond the reach of bc, and beyond the reach of b.
OtherSizes == {65536, 67108864}

BranchConditions == {"Equal", "LessThan"}

JumpKinds == {"ShortJump", "LongJump"}

InitAsm ==
    /\ buffer = <<>>
    /\ label = NoLabel
    /\ sites = {}
    /\ req = [op |-> "none", start |-> 0, was |-> NoLabel, n |-> 0]
    /\ cpu = <<>>
    /\ mem = <<>>
    /\ resv = <<>>

\* A branch macro appended e.words; the site is remembered with its length.
AsmAppend(op, e) ==
    /\ req.n < MaxEmit
    /\ buffer' = buffer \o e.words
    /\ label' = e.label
    /\ sites' = sites \cup {<<nextOffset(buffer), Len(e.words), op>>}
    /\ req' = [op |-> op, start |-> Len(buffer), was |-> label, n |-> req.n + 1]
    /\ UNCHANGED <<cpu, mem, resv>>

AsmBc ==
    \E c \in BranchConditions, jumpKind \in JumpKinds :
        \* MOZ_ASSERT(BOffImm16::IsInSignedRange(offset)) for a short jump
        /\ (label.bound /\ jumpKind = "ShortJump")
              => BOffImm16_IsInSignedRange(label.offset - nextOffset(buffer))
        /\ AsmAppend("ma_bc", ma_bc_cr(buffer, label, 0, c, jumpKind))

AsmB ==
    \E jumpKind \in JumpKinds :
        /\ (label.bound /\ jumpKind = "ShortJump")
              => JOffImm26_IsInRange(nextOffset(buffer) - label.offset)
        /\ AsmAppend("ma_b", ma_b(buffer, label, jumpKind))

AsmBal == AsmAppend("ma_bal", ma_bal(buffer, label))

AsmOther ==
    \E nbytes \in OtherSizes :
        /\ req.n < MaxEmit
        /\ buffer' = Append(buffer, as_other(nbytes))
        /\ req' = [op |-> "other", start |-> Len(buffer), was |-> label, n |-> req.n + 1]
        /\ UNCHANGED <<label, sites, cpu, mem, resv>>

AsmBind ==
    /\ req.n < MaxEmit
    /\ ~label.bound
    /\ BindReaches(buffer, label, nextOffset(buffer))
    /\ buffer' = bind(buffer, label, nextOffset(buffer))
    /\ label' = [bound |-> TRUE, used |-> FALSE, offset |-> nextOffset(buffer)]
    /\ req' = [op |-> "bind", start |-> Len(buffer), was |-> label, n |-> req.n + 1]
    /\ UNCHANGED <<sites, cpu, mem, resv>>

NextAsm == AsmBc \/ AsmB \/ AsmBal \/ AsmOther \/ AsmBind

SpecAsm == InitAsm /\ [][NextAsm]_vars

\* The words of the site s = <<offset, length, macro>>.
SiteWords(s) == LET k == IndexAt(buffer, s[1]) IN k..(k + s[2] - 1)

IsBranchAndLink(w) == Op(w) \in {"b", "bctr"} /\ (IF Op(w) = "b" THEN Mb(w) ELSE Imm(w)) = 1

\* C7: every ma_bal stanza is 7 words long and its 7th word is the branch-and-link,
\* or the no-op that reserves its place while the label is unbound; the code
\* after the stanza, to which the call returns, starts 28 bytes behind its start.
BalSevenWords ==
    /\ \A s \in sites :
          s[3] = "ma_bal" =>
             /\ s[2] = 7
             /\ LET w == buffer[IndexAt(buffer, s[1]) + 6]
                IN  IF label.bound THEN IsBranchAndLink(w) ELSE w = as_nop
    /\ req.op = "ma_bal" =>
          /\ Len(buffer) - req.start = 7
          /\ nextOffset(buffer) = OffsetOf(buffer, req.start + 1) + 28
          /\ req.was.bound => IsBranchAndLink(buffer[Len(buffer)])

\* ma_bal was called for a bound label out of the reach of bl, behind a stanza
\* for the label still unbound.
BalLongReached ==
    /\ req.op = "ma_bal"
    /\ req.was.bound
    /\ Op(buffer[Len(buffer)]) = "bctr"
    /\ \E s \in sites : s[3] = "ma_bal" /\ s[1] < label.offset

\* C8: a branch macro called for a bound label appends either the long form
\* or a relative branch whose displacement plus whose own offset is the
\* label's offset.
BranchLandsOnLabel ==
    (req.op \in {"ma_bc", "ma_b", "ma_bal"} /\ req.was.bound) =>
        \/ \E j \in (req.start + 1)..Len(buffer) : Op(buffer[j]) = "bctr"
        \/ \E j \in (req.start + 1)..Len(buffer) :
              /\ Op(buffer[j]) \in {"b", "bc"}
              /\ OffsetOf(buffer, j) + Imm(buffer[j]) = label.offset

-----------------------------------------------------------------------------
(* Specification SpecCall: a toggled call is assembled, or a patchable call *)
(* site is assembled and then enabled and disabled in any order.            *)

\* toggledCall(JitCode*, bool)
toggledCall(target, enabled) ==
    ma_liPatchable_ImmPtr(ScratchRegister, target)
    \o (IF enabled
        THEN <<xs_mtctr(ScratchRegister), as_bctr(1), as_nop>>
        ELSE <<as_nop, as_nop>>)

\* nopPatchableToCall(): the words appended; the CodeOffset returned is the
\* offset before them.
nopPatchableToCall == <<as_nop, as_nop, as_nop, as_nop, as_nop, as_nop, as_nop>>

\* Assembler::WriteLoad64Instructions(inst, reg, value)
WriteLoad64Instructions(reg, value) == ma_liPatchable(reg, value)

\* patchNopToCall(call, target): inst = (Instruction*) call - 7
patchNopToCall(buf, call, target) ==
    LET inst == (call \div 4) - 7 + 1
    IN  Patch(buf, inst, WriteLoad64Instructions(ScratchRegister, target)
                         \o <<xs_mtctr(ScratchRegister), as_bctr(1)>>)

\* patchCallToNop(call): inst = (Instruction*) call - 6
patchCallToNop(buf, call) ==
    LET inst == (call \div 4) - 6 + 1
    IN  Patch(buf, inst, <<as_nop, as_nop, as_nop, as_nop, as_nop, as_nop, as_nop>>)

\* The number of patches applied to the call site.
MaxPatch == 3

\* The number of words assembled behind the call site.
MaxAfter == 1

CallTargets == {<<0, 0, 0, 4096>>, <<0, 32767, 65535, 8>>, <<65535, 65535, 32768, 0>>}

\* The buffer holds the code assembled so far: 7 words or more.
InitCall ==
    /\ \E n \in 7..(7 + MaxPrefix) : buffer = [k \in 1..n |-> writeInst(k)]
    /\ label = NoLabel
    /\ sites = {}
    /\ req = [op |-> "none", prevop |-> "none", start |-> 0, call |-> 0, enabled |-> FALSE,
              target |-> ZeroHalves, before |-> <<>>, orig |-> <<>>, n |-> 0]
    /\ cpu = <<>>
    /\ mem = <<>>
    /\ resv = <<>>

CallToggled ==
    \E target \in CallTargets, enabled \in BOOLEAN :
        /\ req.op = "none"
        /\ buffer' = buffer \o toggledCall(target, enabled)
        /\ req' = [req EXCEPT !.op = "toggledCall", !.start = Len(buffer),
                              !.call = nextOffset(buffer), !.enabled = enabled,
                              !.target = target, !.before = buffer,
                              !.orig = buffer \o toggledCall(target, enabled)]
        /\ UNCHANGED <<label, sites, cpu, mem, resv>>

CallNopPatchable ==
    /\ req.op = "none"
    /\ buffer' = buffer \o nopPatchableToCall
    /\ req' = [req EXCEPT !.op = "nopPatchableToCall", !.start = Len(buffer),
                          !.call = nextOffset(buffer), !.before = buffer,
                          !.orig = buffer \o nopPatchableToCall]
    /\ UNCHANGED <<label, sites, cpu, mem, resv>>

\* Code assembled behind the call site, before any patching.
CallOther ==
    /\ req.op \in {"nopPatchableToCall", "toggledCall"}
    /\ Len(buffer) - Len(req.before) < 7 + MaxAfter
    /\ buffer' = Append(buffer, writeInst(Len(buffer) + 1))
    /\ req' = [req EXCEPT !.orig = Append(buffer, writeInst(Len(buffer) + 1))]
    /\ UNCHANGED <<label, sites, cpu, mem, resv>>

IsPatchable == req.op \in {"nopPatchableToCall", "patchNopToCall", "patchCallToNop"}

CallPatchNopToCall ==
    \E target \in CallTargets :
        /\ IsPatchable
        /\ req.n < MaxPatch
        /\ buffer' = patchNopToCall(buffer, req.call, target)
        /\ req' = [req EXCEPT !.op = "patchNopToCall", !.prevop = req.op,
                              !.enabled = (req.op = "patchNopToCall" /\ req.target = target),
                              !.target = target, !.before = buffer, !.n = req.n + 1]
        /\ UNCHANGED <<label, sites, cpu, mem, resv>>

CallPatchCallToNop ==
    /\ IsPatchable
    /\ req.n < MaxPatch
    /\ buffer' = patchCallToNop(buffer, req.call)
    /\ req' = [req EXCEPT !.op = "patchCallToNop", !.prevop = req.op,
                          !.before = buffer, !.n = req.n + 1]
    /\ UNCHANGED <<label, sites, cpu, mem, resv>>

NextCall == CallToggled \/ CallNopPatchable \/ CallOther \/ CallPatchNopToCall \/ CallPatchCallToNop

SpecCall == InitCall /\ [][NextCall]_vars

\* The words nopPatchableToCall reserved.
Reserved == (req.start + 1)..(req.start + 7)

\* C5: the patches of a call site write only inside the 7 words reserved for
\* it and keep the length of the buffer; a patch repeated leaves the words of
\* the first time; and enabling then disabling leaves 7 no-ops.
PatchableCallStable ==
    IsPatchable =>
        /\ Len(buffer) = Len(req.orig)
        /\ \A j \in 1..Len(buffer) : j \notin Reserved => buffer[j] = req.orig[j]
        /\ (req.op = "patchCallToNop" /\ req.prevop = "patchCallToNop") => buffer = req.before
        /\ (req.op = "patchNopToCall" /\ req.enabled) => buffer = req.before
        /\ (req.op = "patchCallToNop" /\ req.prevop = "patchNopToCall")
              => \A j \in Reserved : buffer[j] = as_nop

\* C6: toggledCall appends as many words enabled as disabled, and both forms
\* start with the same 5-word load of the target.
ToggledCallSameSize ==
    req.op = "toggledCall" =>
        /\ Len(buffer) - req.start = Len(toggledCall(req.target, ~req.enabled))
        /\ SubSeq(buffer, req.start + 1, req.start + 5)
              = SubSeq(toggledCall(req.target, ~req.enabled), 1, 5)

-----------------------------------------------------------------------------
(* Specification SpecCmp: a compare-and-branch or a compare-and-set is     *)
(* assembled behind a bound label and executed on two register values.     *)

\* A variant of ma_bc(Register, Register, ...) that always compares signed.
ma_bc_signed(buf, l, lhs, rhs, c, jumpKind) ==
    LET e == ma_bc_cr(Append(buf, as_cmpd(lhs, rhs)), l, 0, c, jumpKind)
    IN  Emitted(<<as_cmpd(lhs, rhs)>> \o e.words, e.label)

\* ma_bc(Register lhs, Register rhs, Label*, Condition, JumpKind)
ma_bc(buf, l, lhs, rhs, c, jumpKind) ==
    LET cmp == IF c \in ZeroConditions THEN as_cmpdi(lhs, 0)
               ELSE IF c \in UnsignedConditions THEN as_cmpld(lhs, rhs)
               ELSE as_cmpd(lhs, rhs)
        e == ma_bc_cr(Append(buf, cmp), l, 0, c, jumpKind)
    IN  IF c = "Always" THEN ma_b(buf, l, jumpKind)
        ELSE Emitted(<<cmp>> \o e.words, e.label)

\* The rotate count ma_cmp_set derives from the condition.
CmpSetShift(c) ==
    CASE c \in {"Equal", "NotEqual"} -> 2
      [] c = "Above" -> 1
      [] c \in {"AboveOrEqual", "GreaterThanOrEqual", "Below", "LessThan"} -> 3
      [] c \in {"BelowOrEqual", "LessThanOrEqual", "GreaterThan"} -> 1

CmpSetNegated == {"NotEqual", "AboveOrEqual", "GreaterThanOrEqual", "LessThanOrEqual", "BelowOrEqual"}

\* The words of ma_cmp_set around the compare instruction cmp.
CmpSetAround(rd, cmp, c) ==
    <<as_mfcr(rd), cmp, as_mfcr(rd), as_rlwinm(rd, rd, (3 - CmpSetShift(c)) + 28, 30, 31)>>
    \o (IF c \in CmpSetNegated THEN <<as_xori(rd, rd, 1)>> ELSE <<>>)

\* ma_cmp_set(Register rd, Register rs, Register rt, Condition)
ma_cmp_set(rd, rs, rt, c) == CmpSetAround(rd, as_cmpd(rs, rt), c)

\* ma_cmp_set(Register rd, Register rs, Imm16, Condition)
ma_cmp_set_Imm16(rd, rs, imm, c) == CmpSetAround(rd, as_cmpdi(rs, imm), c)

\* The register values compared: around the signed and unsigned 32- and 64-bit boundaries.
CmpValues == {<<0, 0, 0, 0>>, <<0, 0, 0, 1>>, <<0, 0, 65535, 65535>>,
              <<32768, 0, 0, 0>>, <<65535, 65535, 65535, 65535>>}

\* What the condition fields other than cr0 hold before the sequence.
CrFills == {0, 15}

Imm16Values == {0, 1, 65535}

CmpLhs == "r3"

CmpRhs == "r4"

CmpRegs == {"r3", "r4", "r5"}

InitCmp ==
    /\ buffer = <<as_nop>>
    /\ label = [bound |-> TRUE, used |-> FALSE, offset |-> 0]
    /\ sites = {}
    /\ req = [op |-> "none", c |-> "Equal", rd |-> "", lhs |-> ZeroHalves, rhs |-> ZeroHalves]
    /\ \E a \in CmpValues, b \in CmpValues, f \in CrFills :
          cpu = [t \in {1} |->
                   [regs |-> [r \in CmpRegs |-> IF r = CmpLhs THEN a
                                                ELSE IF r = CmpRhs THEN b ELSE OnesHalves],
                    cr |-> <<0, f, f, f, f, f, f, f>>, ctr |-> ZeroHalves, lr |-> 0, pc |-> 2]]
    /\ mem = <<>>
    /\ resv = <<>>

CmpAppend(op, c, rd, rhs, words) ==
    /\ req.op = "none"
    /\ buffer' = buffer \o words
    /\ req' = [op |-> op, c |-> c, rd |-> rd, lhs |-> cpu[1].regs[CmpLhs], rhs |-> rhs]
    /\ UNCHANGED <<label, sites, cpu, mem, resv>>

CmpEmitBc ==
    \E c \in SetConditions :
        CmpAppend("ma_bc", c, "", cpu[1].regs[CmpRhs],
                  ma_bc(buffer, label, CmpLhs, CmpRhs, c, "LongJump").words)

CmpEmitSet ==
    \E c \in SetConditions, rd \in CmpRegs :
        CmpAppend("ma_cmp_set", c, rd, cpu[1].regs[CmpRhs], ma_cmp_set(rd, CmpLhs, CmpRhs, c))

CmpEmitSetImm ==
    \E c \in SetConditions, rd \in CmpRegs, imm \in Imm16Values :
        CmpAppend("ma_cmp_set_Imm16", c, rd, ToHalves(SImm(imm)),
                  ma_cmp_set_Imm16(rd, CmpLhs, imm, c))

\* The thread runs the sequence; a taken branch leaves it at the label, word 1.
CmpExec == req.op # "none" /\ cpu[1].pc > 1 /\ StepReg(1)

NextCmp == CmpEmitBc \/ CmpEmitSet \/ CmpEmitSetImm \/ CmpExec

SpecCmp == InitCmp /\ [][NextCmp]_vars

\* Whether condition c holds between a and b: the order is unsigned for the
\* Above/Below family and signed otherwise.
CondOn(c, a, b) ==
    CondHolds(c, IF c \in UnsignedConditions
                 THEN CmpU(FromHalves(a), FromHalves(b), 64)
                 ELSE CmpS(FromHalves(a), FromHalves(b), 64))

BranchDone == req.op = "ma_bc" /\ cpu[1].pc \in {1, Len(buffer) + 1}

\* C9: the branch of ma_bc(lhs, rhs, label, LessThan) is taken iff lhs < rhs as
\* signed 64-bit integers, that of ma_bc(lhs, rhs, label, Below) iff lhs < rhs as
\* unsigned 64-bit integers.
BranchSignedness ==
    /\ (BranchDone /\ req.c = "LessThan") =>
          (cpu[1].pc = 1 <=> LtS(FromHalves(req.lhs), FromHalves(req.rhs), 64))
    /\ (BranchDone /\ req.c = "Below") =>
          (cpu[1].pc = 1 <=> LtU(FromHalves(req.lhs), FromHalves(req.rhs), 64))

\* The Below branch on the pair (-1, 1) was executed and not taken.
BelowNotTaken ==
    /\ req.op = "ma_bc"
    /\ req.c = "Below"
    /\ req.lhs = OnesHalves
    /\ req.rhs = <<0, 0, 0, 1>>
    /\ cpu[1].pc = Len(buffer) + 1

\* C10: after ma_cmp_set, rd is 1 if the condition holds between rs and the
\* second operand and 0 otherwise, whichever register rd is.
CmpSetBoolean ==
    (req.op \in {"ma_cmp_set", "ma_cmp_set_Imm16"} /\ Finished(1)) =>
        cpu[1].regs[req.rd] = (IF CondOn(req.c, req.lhs, req.rhs)
                               THEN <<0, 0, 0, 1>> ELSE ZeroHalves)

-----------------------------------------------------------------------------
(* Memory and the load-reserve / store-conditional instructions.  mem[a]   *)
(* is the byte at address a; req.be tells whether the machine is           *)
(* big-endian; resv[t] holds the address thread t has reserved, if any.    *)

\* The byte of significance k of the n-byte datum at address a.
ByteAt(m, a, n, k, be) == m[a + (IF be THEN n - 1 - k ELSE k)]

\* The n-byte datum at address a, zero-extended, as four halfwords.
Load(m, a, n, be) ==
    [j \in 1..4 |->
        LET k == 2 * (4 - j)
        IN  (IF k < n THEN ByteAt(m, a, n, k, be) ELSE 0)
            + (IF k + 1 < n THEN 256 * ByteAt(m, a, n, k + 1, be) ELSE 0)]

\* The byte of significance k of the value h.
ByteOf(h, k) == (h[4 - (k \div 2)] \div (IF k % 2 = 0 THEN 1 ELSE 256)) % 256

\* Memory after the low n bytes of h are stored at address a.
Store(m, a, n, h, be) ==
    [x \in DOMAIN m |->
        IF x >= a /\ x < a + n
        THEN ByteOf(h, IF be THEN n - 1 - (x - a) ELSE x - a)
        ELSE m[x]]

MemOps == {"lwarx", "ldarx", "stwcx.", "stdcx."}

\* The store-conditionals of a thread are counted up to MaxSc.
MaxSc == 2

CountSc(n) == IF n < MaxSc THEN n + 1 ELSE n

\* One load-reserve or store-conditional of thread t.  ra is always r0 here,
\* which stands for zero in the address computation.
StepMem(t) ==
    LET i == buffer[cpu[t].pc]
        c == cpu[t]
        ea == c.regs[Rb(i)][4]
        n == IF Op(i) \in {"lwarx", "stwcx."} THEN 4 ELSE 8
    IN  /\ Running(t)
        /\ Op(i) \in MemOps
        /\ IF Op(i) \in {"lwarx", "ldarx"}
           THEN /\ cpu' = [cpu EXCEPT ![t] = [c EXCEPT !.regs[Rt(i)] = Load(mem, ea, n, req.be),
                                                       !.pc = c.pc + 1]]
                /\ resv' = [resv EXCEPT ![t] = {ea}]
                /\ mem' = mem
           ELSE IF resv[t] = {ea}
           THEN /\ mem' = Store(mem, ea, n, c.regs[Rt(i)], req.be)
                /\ cpu' = [cpu EXCEPT ![t] = [c EXCEPT !.cr = SetCr0(c.cr, 2), !.pc = c.pc + 1,
                                                       !.sc = CountSc(c.sc)]]
                /\ resv' = [u \in DOMAIN resv |-> IF resv[u] = {ea} THEN {} ELSE resv[u]]
           ELSE /\ mem' = mem
                /\ cpu' = [cpu EXCEPT ![t] = [c EXCEPT !.cr = SetCr0(c.cr, 0), !.pc = c.pc + 1,
                                                       !.sc = CountSc(c.sc)]]
                /\ resv' = [resv EXCEPT ![t] = {}]
        /\ UNCHANGED <<buffer, label, sites, req>>

\* A thread of an atomic sequence: sc counts the store-conditionals it has
\* executed (up to MaxSc), runs the times it has completed the sequence.
AtomicThread(regs) ==
    [regs |-> regs, cr |-> <<0, 0, 0, 0, 0, 0, 0, 0>>, ctr |-> ZeroHalves, lr |-> 0, pc |-> 1,
     sc |-> 0, runs |-> 0]

-----------------------------------------------------------------------------
(* Primitive atomic operations.                                            *)

byteSize(type) ==
    CASE type \in {"Int8", "Uint8"} -> 1
      [] type \in {"Int16", "Uint16"} -> 2
      [] type \in {"Int32", "Uint32"} -> 4
      [] type = "Int64" -> 8

isSignedIntType(type) == type \in {"Int8", "Int16", "Int32", "Int64"}

x_slwi(rd, rs, n) == as_rlwinm(rd, rs, n, 0, 31 - n)

x_sldi(rd, rs, n) == as_rldicr(rd, rs, n, 63 - n)

\* computeEffectiveAddress(Address(base, off), dest)
computeEffectiveAddress(base, off, dest) == <<as_addi(dest, base, off)>>

\* memoryBarrier(MemoryBarrierBits)
memoryBarrier == <<as_lwsync>>

\* ma_li(Register, Imm32) of UINT32_MAX >> ((4 - nbytes) * 8), for nbytes 1 or 2
LaneMask(dest, nbytes) == ma_li(dest, <<0, 0, 0, IF nbytes = 1 THEN 255 ELSE 65535>>)

\* A label bound at offset o.
BoundAt(o) == [bound |-> TRUE, used |-> FALSE, offset |-> o]

\* The words that leave in offsetTemp the bit offset of the datum in its word
\* and in maskTemp the mask of the other bits; shift is the x_slwi or x_sldi
\* and shl the as_slw or as_sld of the caller.  The xori stands under
\* "#if !MOZ_LITTLE_ENDIAN": flip tells whether the build has it.
LaneSetup(nbytes, offsetTemp, maskTemp, flip, shift, shl) ==
    <<as_andi_rc(offsetTemp, SecondScratchReg, 3),
      as_subf(SecondScratchReg, offsetTemp, SecondScratchReg)>>
    \o (IF flip THEN <<as_xori(offsetTemp, offsetTemp, 3)>> ELSE <<>>)
    \o <<shift>>
    \o LaneMask(maskTemp, nbytes)
    \o <<shl, as_nor(maskTemp, maskTemp, maskTemp)>>

\* The words that bring the 1- or 2-byte operand and the loaded datum to the
\* width of the type.
CasNarrow(nbytes, signExtend, valueTemp, oldval, output) ==
    IF nbytes = 1
    THEN IF signExtend
         THEN <<as_extsb(valueTemp, oldval), as_extsb(output, output)>>
         ELSE <<as_andi_rc(valueTemp, oldval, 255), as_andi_rc(output, output, 255)>>
    ELSE IF signExtend
         THEN <<as_extsh(valueTemp, oldval), as_extsh(output, output)>>
         ELSE <<as_andi_rc(valueTemp, oldval, 65535), as_andi_rc(output, output, 65535)>>

\* CompareExchange(masm, type, sync, Address(base, off), oldval, newval,
\*                 valueTemp, offsetTemp, maskTemp, output): the buffer it leaves.
CompareExchange(buf, type, base, off, oldval, newval, valueTemp, offsetTemp, maskTemp, output, flip) ==
    LET nbytes == byteSize(type)
        ea == computeEffectiveAddress(base, off, SecondScratchReg)
    IN  IF nbytes = 4
        THEN LET b1 == buf \o ea \o memoryBarrier
                 again == BoundAt(nextOffset(b1))
                 b2 == Append(b1, as_lwarx(output, "r0", SecondScratchReg))
                 toEnd == ma_bc(b2, NoLabel, output, oldval, "NotEqual", "ShortJump")
                 b3 == b2 \o toEnd.words \o <<as_stwcx(newval, "r0", SecondScratchReg)>>
                 b4 == b3 \o ma_bc_cr(b3, again, 0, "NotEqual", "ShortJump").words
                          \o memoryBarrier
             IN  bind(b4, toEnd.label, nextOffset(b4))
        ELSE LET b1 == buf \o ea
                          \o LaneSetup(nbytes, offsetTemp, maskTemp, flip,
                                       x_slwi(offsetTemp, offsetTemp, 3),
                                       as_slw(maskTemp, maskTemp, offsetTemp))
                          \o memoryBarrier
                 again == BoundAt(nextOffset(b1))
                 b2 == b1 \o <<as_lwarx(ScratchRegister, "r0", SecondScratchReg),
                                as_srw(output, ScratchRegister, offsetTemp)>>
                          \o CasNarrow(nbytes, isSignedIntType(type), valueTemp, oldval, output)
                 toEnd == ma_bc(b2, NoLabel, output, valueTemp, "NotEqual", "ShortJump")
                 b3 == b2 \o toEnd.words
                          \o <<as_slw(valueTemp, newval, offsetTemp),
                               as_and(ScratchRegister, ScratchRegister, maskTemp),
                               as_or(ScratchRegister, ScratchRegister, valueTemp),
                               as_stwcx(ScratchRegister, "r0", SecondScratchReg)>>
                 b4 == b3 \o ma_bc(b3, again, ScratchRegister, ScratchRegister, "Zero",
                                   "ShortJump").words
                          \o memoryBarrier
             IN  bind(b4, toEnd.label, nextOffset(b4))

\* movePtr(Register src, Register dest)
movePtr(src, dest) == as_or(dest, src, src)

\* CompareExchange64(masm, sync, Address(base, off), expect, replace, output)
CompareExchange64(buf, base, off, expect, replace, output) ==
    LET b1 == buf \o computeEffectiveAddress(base, off, SecondScratchReg) \o memoryBarrier
        tryAgain == BoundAt(nextOffset(b1))
        b2 == Append(b1, as_ldarx(output, "r0", SecondScratchReg))
        toExit == ma_bc(b2, NoLabel, output, expect, "NotEqual", "ShortJump")
        b3 == b2 \o toExit.words
                 \o <<movePtr(replace, ScratchRegister),
                      as_stdcx(ScratchRegister, "r0", SecondScratchReg)>>
        b4 == b3 \o ma_bc(b3, tryAgain, ScratchRegister, ScratchRegister, "NotEqual",
                          "ShortJump").words
                 \o memoryBarrier
    IN  bind(b4, toExit.label, nextOffset(b4))

-----------------------------------------------------------------------------
(* Specification SpecCas: one compare-exchange is assembled and executed   *)
(* by one thread on a small memory.                                        *)

\* The builds: a little-endian machine without or with the lane xori, and a
\* big-endian machine, which always has it.  <<be, flip>>
Builds == {<<FALSE, FALSE>>, <<FALSE, TRUE>>, <<TRUE, TRUE>>}

MemImages == {<<0, 0, 0, 0, 0, 0, 0, 0>>,
              <<255, 255, 255, 255, 255, 255, 255, 255>>,
              <<128, 1, 2, 131, 4, 5, 6, 7>>}

\* Memory is addressed from 0.
MemOf(image) == [a \in 0..7 |-> image[a + 1]]

OldValues == {<<0, 0, 0, 0>>, <<0, 0, 0, 128>>, <<65535, 65535, 65535, 65535>>}

NewValue == <<0, 0, 0, 90>>

NarrowTypes == {"Int8", "Uint8", "Int16", "Uint16", "Int32", "Uint32"}

\* The aligned offsets of a datum of the type within the first word or two.
OffsetsOf(type) == {o \in 0..4 : o % byteSize(type) = 0}

AtomicRegs == {"r0", "r12", "r3", "r4", "r5", "r6", "r7", "r8", "r9"}

\* base r6 holds address 0, r3 the expected or operand value, r4 the replacement.
AtomicRegFile(value) ==
    [r \in AtomicRegs |-> IF r = "r3" THEN value
                          ELSE IF r = "r4" THEN NewValue
                          ELSE IF r = "r6" THEN ZeroHalves ELSE OnesHalves]

InitCas ==
    /\ buffer = <<>>
    /\ label = NoLabel
    /\ sites = {}
    /\ \E build \in Builds, image \in MemImages, old \in OldValues :
          /\ req = [op |-> "none", type |-> "Int8", addr |-> 0, be |-> build[1],
                    flip |-> build[2], mem0 |-> MemOf(image), oldval |-> old]
          /\ mem = MemOf(image)
          /\ cpu = [t \in {1} |-> AtomicThread(AtomicRegFile(old))]
    /\ resv = [t \in {1} |-> {}]

CasEmit ==
    \E type \in NarrowTypes :
        \E off \in OffsetsOf(type) :
            /\ req.op = "none"
            /\ buffer' = CompareExchange(buffer, type, "r6", off, "r3", "r4", "r7", "r8", "r9",
                                         "r5", req.flip)
            /\ req' = [req EXCEPT !.op = "compareExchange", !.type = type, !.addr = off]
            /\ UNCHANGED <<label, sites, cpu, mem, resv>>

CasEmit64 ==
    /\ req.op = "none"
    /\ buffer' = CompareExchange64(buffer, "r6", 0, "r3", "r4", "r5")
    /\ req' = [req EXCEPT !.op = "compareExchange64", !.type = "Int64", !.addr = 0]
    /\ UNCHANGED <<label, sites, cpu, mem, resv>>

CasExec == req.op # "none" /\ (StepReg(1) \/ StepMem(1))

NextCas == CasEmit \/ CasEmit64 \/ CasExec

SpecCas == InitCas /\ [][NextCas]_vars

\* The value h cut to the width of the type and extended as the type says.
Typed(h, type) ==
    ToHalves(IF isSignedIntType(type)
             THEN SignExt(FromHalves(h), 8 * byteSize(type))
             ELSE ZeroExt(FromHalves(h), 8 * byteSize(type)))

\* The datum the operation addresses, as it was before the sequence ran.
Prior == Typed(Load(req.mem0, req.addr, byteSize(req.type), req.be), req.type)

\* C4: when the datum in memory differs from the expected operand, the
\* sequence executes no store-conditional, leaves memory as it was, and
\* leaves in the output register the datum extended as its type says.
CasMismatch ==
    (req.op \in {"compareExchange", "compareExchange64"} /\ Finished(1)
       /\ Prior # Typed(req.oldval, req.type))
    => /\ cpu[1].sc = 0
       /\ mem = req.mem0
       /\ cpu[1].regs["r5"] = Prior

-----------------------------------------------------------------------------
(* Specification SpecFetch: one atomic fetch-and-add on a byte is          *)
(* assembled; two threads each execute it several times.                   *)

AtomicOps == {"AtomicFetchAddOp", "AtomicFetchSubOp", "AtomicFetchAndOp", "AtomicFetchOrOp",
              "AtomicFetchXorOp"}

\* switch (op): rd = a op value
FetchOpWord(op, rd, a, value) ==
    CASE op = "AtomicFetchAddOp" -> as_add(rd, a, value)
      [] op = "AtomicFetchSubOp" -> as_subf(rd, value, a)
      [] op = "AtomicFetchAndOp" -> as_and(rd, a, value)
      [] op = "AtomicFetchOrOp" -> as_or(rd, a, value)
      [] op = "AtomicFetchXorOp" -> as_xor(rd, a, value)

\* AtomicFetchOp(masm, type, sync, op, Address(base, off), value, valueTemp,
\*               offsetTemp, maskTemp, output): the buffer it leaves.
AtomicFetchOp(buf, type, op, base, off, value, valueTemp, offsetTemp, maskTemp, output, flip) ==
    LET nbytes == byteSize(type)
        ea == computeEffectiveAddress(base, off, SecondScratchReg)
    IN  IF nbytes = 4
        THEN LET b1 == buf \o ea \o memoryBarrier
                 again == BoundAt(nextOffset(b1))
                 b2 == b1 \o <<as_lwarx(output, "r0", SecondScratchReg),
                                FetchOpWord(op, ScratchRegister, output, value),
                                as_stwcx(ScratchRegister, "r0", SecondScratchReg)>>
             IN  b2 \o ma_bc(b2, again, ScratchRegister, ScratchRegister, "Zero",
                             "ShortJump").words
                    \o memoryBarrier
        ELSE LET b1 == buf \o ea
                          \o LaneSetup(nbytes, offsetTemp, maskTemp, flip,
                                       x_sldi(offsetTemp, offsetTemp, 3),
                                       as_sld(maskTemp, maskTemp, offsetTemp))
                          \o memoryBarrier
                 again == BoundAt(nextOffset(b1))
                 b2 == b1 \o <<as_lwarx(ScratchRegister, "r0", SecondScratchReg),
                                as_srd(output, ScratchRegister, offsetTemp),
                                FetchOpWord(op, valueTemp, output, value),
                                as_andi_rc(valueTemp, valueTemp,
                                           IF nbytes = 1 THEN 255 ELSE 65535),
                                as_sld(valueTemp, valueTemp, offsetTemp),
                                as_and(ScratchRegister, ScratchRegister, maskTemp),
                                as_or(ScratchRegister, ScratchRegister, valueTemp),
                                as_stwcx(ScratchRegister, "r0", SecondScratchReg)>>
             IN  b2 \o ma_bc(b2, again, ScratchRegister, ScratchRegister, "Zero",
                             "ShortJump").words
                    \o <<IF nbytes = 1
                         THEN (IF isSignedIntType(type) THEN as_extsb(output, output)
                               ELSE as_andi_rc(output, output, 255))
                         ELSE (IF isSignedIntType(type) THEN as_extsh(output, output)
                               ELSE as_andi_rc(output, output, 65535))>>
                    \o memoryBarrier

\* The times each thread executes the sequence.
MaxRuns == 2

Threads == {1, 2}

\* The byte operated on, and the word around it.
FetchOffsets == {0, 3}

FetchImage == <<17, 34, 51, 68, 4, 5, 6, 7>>

InitFetch ==
    /\ buffer = <<>>
    /\ label = NoLabel
    /\ sites = {}
    /\ \E build \in Builds, off \in FetchOffsets :
          /\ req = [op |-> "none", type |-> "Uint8", addr |-> off, be |-> build[1],
                    flip |-> build[2],
                    mem0 |-> [MemOf(FetchImage) EXCEPT ![off] = 0],
                    oldval |-> <<0, 0, 0, 1>>]
          /\ mem = [MemOf(FetchImage) EXCEPT ![off] = 0]
    /\ cpu = [t \in Threads |-> AtomicThread(AtomicRegFile(<<0, 0, 0, 1>>))]
    /\ resv = [t \in Threads |-> {}]

FetchEmit ==
    \E type \in {"Int8", "Uint8"} :
        /\ req.op = "none"
        /\ buffer' = AtomicFetchOp(buffer, type, "AtomicFetchAddOp", "r6", req.addr, "r3", "r7",
                                   "r8", "r9", "r5", req.flip)
        /\ req' = [req EXCEPT !.op = "atomicFetchOp", !.type = type]
        /\ UNCHANGED <<label, sites, cpu, mem, resv>>

FetchExec == \E t \in Threads : req.op # "none" /\ (StepReg(t) \/ StepMem(t))

\* A thread that has completed the sequence executes it again.
FetchAgain ==
    \E t \in Threads :
        /\ req.op # "none"
        /\ Finished(t)
        /\ cpu[t].runs + 1 < MaxRuns
        /\ cpu' = [cpu EXCEPT ![t].pc = 1, ![t].runs = cpu[t].runs + 1]
        /\ UNCHANGED <<buffer, label, sites, req, mem, resv>>

NextFetch == FetchEmit \/ FetchExec \/ FetchAgain

SpecFetch == InitFetch /\ [][NextFetch]_vars

FetchDone == req.op = "atomicFetchOp" /\ \A t \in Threads : Finished(t) /\ cpu[t].runs + 1 = MaxRuns

\* C3: when both threads have executed the fetch-and-add of 1 MaxRuns times,
\* the byte holds 2 * MaxRuns and the other bytes are as they were.
FetchAddNoLostUpdate ==
    FetchDone =>
        /\ mem[req.addr] = (2 * MaxRuns) % 256
        /\ \A a \in DOMAIN mem : a # req.addr => mem[a] = req.mem0[a]

-----------------------------------------------------------------------------
(* Value boxing.  A boxed value keeps a 17-bit tag above JSVAL_TAG_SHIFT   *)
(* and the payload below it.                                               *)

JSVAL_TAG_SHIFT == 47

\* JSValueType
JSValueType(type) ==
    CASE type = "DOUBLE" -> 0
      [] type = "INT32" -> 1
      [] type = "BOOLEAN" -> 2
      [] type = "STRING" -> 6
      [] type = "SYMBOL" -> 7
      [] type = "BIGINT" -> 9
      [] type = "OBJECT" -> 12

\* JSVAL_TYPE_TO_TAG(type): JSVAL_TAG_MAX_DOUBLE | type
JSVAL_TYPE_TO_TAG(type) == 131056 + JSValueType(type)

\* JSVAL_TYPE_TO_SHIFTED_TAG(type): the tag shifted left by JSVAL_TAG_SHIFT
JSVAL_TYPE_TO_SHIFTED_TAG(type) ==
    <<JSVAL_TYPE_TO_TAG(type) \div 2, (JSVAL_TYPE_TO_TAG(type) % 2) * 32768, 0, 0>>

\* (uint64_t) of an int32_t: the value sign-extended, as halfwords.
Imm32Halves(v) ==
    IF v >= 0 THEN <<0, 0, v \div 65536, v % 65536>>
    ELSE LET u == (v + 2147483647) + 1
         IN  <<65535, 65535, 32768 + (u \div 65536), u % 65536>>

\* ma_li(Register, Imm32)
ma_li_Imm32(dest, v) == ma_li(dest, Imm32Halves(v))

\* ma_move(Register rd, Register rs)
ma_move(rd, rs) == <<as_or(rd, rs, rs)>>

\* ma_dins(Register rt, Register rs, Imm32 pos, Imm32 size)
ma_dins(rt, rs, pos, size) == <<as_rldimi(rt, rs, 64 - (pos + size), pos)>>

\* ma_dext(Register rt, Register rs, Imm32 pos, Imm32 size)
ma_dext(rt, rs, pos, size) == <<as_rldicl(rt, rs, pos + size, 64 - size)>>

x_srdi(rd, rs, n) == as_rldicl(rd, rs, 64 - n, n)

\* ma_xor(Register rd, Register rs)
ma_xor(rd, rs) == <<as_xor(rd, rd, rs)>>

\* tagValue(JSValueType type, Register payload, ValueOperand dest)
tagValue(type, payload, dest) ==
    (IF payload # dest THEN ma_move(dest, payload) ELSE <<>>)
    \o ma_li_Imm32(ScratchRegister, JSVAL_TYPE_TO_TAG(type))
    \o ma_dins(dest, ScratchRegister, JSVAL_TAG_SHIFT, 64 - JSVAL_TAG_SHIFT)

\* unboxInt32(Register src, Register dest)
unboxInt32(src, dest) == <<as_or(dest, src, src)>>

\* ma_bc(Register lhs, Imm32 imm, Label*, Condition, JumpKind)
ma_bc_Imm32(buf, l, lhs, imm, c, jumpKind) ==
    LET cmp == IF c \in ZeroConditions THEN <<as_cmpdi(lhs, 0)>>
               ELSE IF c \in UnsignedConditions
               THEN (IF imm \in 0..65535 THEN <<as_cmplwi(lhs, imm)>>
                     ELSE ma_li_Imm32(ScratchRegister, imm) \o <<as_cmplw(lhs, ScratchRegister)>>)
               ELSE (IF imm \in -32768..32767 THEN <<as_cmpwi(lhs, imm)>>
                     ELSE ma_li_Imm32(ScratchRegister, imm) \o <<as_cmpw(lhs, ScratchRegister)>>)
        e == ma_bc_cr(buf \o cmp, l, 0, c, jumpKind)
    IN  IF c = "Always" THEN ma_b(buf, l, jumpKind)
        ELSE Emitted(cmp \o e.words, e.label)

\* A variant of fallibleUnboxPtr that copies the scratch register after the shift.
fallibleUnboxPtr_late(buf, l, src, dest, type) ==
    LET head == ma_li(ScratchRegister, JSVAL_TYPE_TO_SHIFTED_TAG(type))
                \o ma_xor(ScratchRegister, src)
                \o <<x_srdi(ScratchRegister, ScratchRegister, JSVAL_TAG_SHIFT)>>
                \o ma_move(dest, ScratchRegister)
        e == ma_bc_Imm32(buf \o head, l, ScratchRegister, 0, "NotEqual", "LongJump")
    IN  Emitted(head \o e.words, e.label)

\* fallibleUnboxPtr(const ValueOperand& src, Register dest, JSValueType, Label* fail)
fallibleUnboxPtr(buf, l, src, dest, type) ==
    LET head == ma_li(ScratchRegister, JSVAL_TYPE_TO_SHIFTED_TAG(type))
                \o ma_xor(ScratchRegister, src)
                \o ma_move(dest, ScratchRegister)
                \o <<x_srdi(ScratchRegister, ScratchRegister, JSVAL_TAG_SHIFT)>>
        e == ma_bc_Imm32(buf \o head, l, ScratchRegister, 0, "NotEqual", "LongJump")
    IN  Emitted(head \o e.words, e.label)

-----------------------------------------------------------------------------
(* Specification SpecBox: a boxing or unboxing sequence is assembled       *)
(* behind a bound label and executed on one register value.                *)

\* 32-bit integers held sign-extended: 0, 1, 0x12345, INT32_MAX, -1, -2, INT32_MIN.
Int32Values == {<<0, 0, 0, 0>>, <<0, 0, 0, 1>>, <<0, 0, 1, 9029>>, <<0, 0, 32767, 65535>>,
                <<65535, 65535, 65535, 65535>>, <<65535, 65535, 65535, 65534>>,
                <<65535, 65535, 32768, 0>>}

\* Payloads of pointer-typed values: 47 bits.
PtrPayloads == {<<0, 0, 0, 0>>, <<0, 0, 0, 8>>, <<0, 32767, 65535, 65528>>}

PtrTypes == {"OBJECT", "STRING", "SYMBOL", "BIGINT"}

BoxTypes == PtrTypes \cup {"INT32", "BOOLEAN"}

\* The boxed value of type type with payload p.
Boxed(type, p) ==
    LET t == JSVAL_TYPE_TO_SHIFTED_TAG(type)
    IN  <<t[1], t[2] + p[2], p[3], p[4]>>

\* Boxed values, and two doubles (1.0 and -0.0), which carry no tag.
BoxedValues ==
    {Boxed(type, p) : type \in BoxTypes, p \in PtrPayloads}
    \cup {<<16368, 0, 0, 0>>, <<32768, 0, 0, 0>>}

BoxSrc == "r3"

BoxRegs == {"r0", "r3", "r4", "r12"}

BoxDests == {"r3", "r4"}

InitBox ==
    /\ buffer = <<as_nop>>
    /\ label = [bound |-> TRUE, used |-> FALSE, offset |-> 0]
    /\ sites = {}
    /\ req = [op |-> "none", type |-> "", dest |-> "", src |-> ZeroHalves]
    /\ \E v \in Int32Values \cup BoxedValues :
          cpu = [t \in {1} |->
                   [regs |-> [r \in BoxRegs |-> IF r = BoxSrc THEN v ELSE OnesHalves],
                    cr |-> <<0, 0, 0, 0, 0, 0, 0, 0>>, ctr |-> ZeroHalves, lr |-> 0, pc |-> 2]]
    /\ mem = <<>>
    /\ resv = <<>>

BoxTagValue ==
    \E dest \in BoxDests :
        /\ req.op = "none"
        /\ buffer' = buffer \o tagValue("INT32", BoxSrc, dest)
        /\ req' = [op |-> "tagValue", type |-> "INT32", dest |-> dest, src |-> cpu[1].regs[BoxSrc]]
        /\ UNCHANGED <<label, sites, cpu, mem, resv>>

\* unboxInt32 of the register tagValue has just been assembled for.
BoxUnboxInt32 ==
    \E dest \in BoxDests :
        /\ req.op = "tagValue"
        /\ cpu[1].pc = 2
        /\ buffer' = buffer \o unboxInt32(req.dest, dest)
        /\ req' = [req EXCEPT !.op = "unboxInt32", !.dest = dest]
        /\ UNCHANGED <<label, sites, cpu, mem, resv>>

BoxFallibleUnboxPtr ==
    \E type \in PtrTypes, dest \in BoxDests :
        /\ req.op = "none"
        /\ buffer' = buffer \o fallibleUnboxPtr(buffer, label, BoxSrc, dest, type).words
        /\ req' = [op |-> "fallibleUnboxPtr", type |-> type, dest |-> dest,
                   src |-> cpu[1].regs[BoxSrc]]
        /\ UNCHANGED <<label, sites, cpu, mem, resv>>

\* The thread runs the sequence; a taken branch leaves it at the label, word 1.
BoxExec == req.op # "none" /\ cpu[1].pc > 1 /\ StepReg(1)

NextBox == BoxTagValue \/ BoxUnboxInt32 \/ BoxFallibleUnboxPtr \/ BoxExec

SpecBox == InitBox /\ [][NextBox]_vars

\* The 17 tag bits of a value, as a number.
TagOf(h) == h[1] * 2 + (h[2] \div 32768)

\* A value with its tag bits cleared.
PayloadOf(h) == <<0, h[2] % 32768, h[3], h[4]>>

\* C11: for a 32-bit integer i held sign-extended, after tagValue(JSVAL_TYPE_INT32,
\* payload, dest) the boxed word has the INT32 tag in its tag field and the
\* payload bits of i below it, and unboxInt32 of the boxed word gives i back.
BoxInt32RoundTrip ==
    /\ (req.op = "tagValue" /\ req.src \in Int32Values /\ Finished(1)) =>
          /\ TagOf(cpu[1].regs[req.dest]) = JSVAL_TYPE_TO_TAG("INT32")
          /\ cpu[1].regs[req.dest][3] = req.src[3]
          /\ cpu[1].regs[req.dest][4] = req.src[4]
    /\ (req.op = "unboxInt32" /\ req.src \in Int32Values /\ Finished(1)) =>
          cpu[1].regs[req.dest] = req.src

FallibleDone == req.op = "fallibleUnboxPtr" /\ cpu[1].pc \in {1, Len(buffer) + 1}

\* C12: fallibleUnboxPtr branches to fail iff the tag bits of the source differ
\* from the tag of the requested type; when it falls through, dest holds the
\* source with its tag bits cleared, also when dest is the source register.
FallibleUnboxPtrTag ==
    FallibleDone =>
        /\ cpu[1].pc = 1 <=> TagOf(req.src) # JSVAL_TYPE_TO_TAG(req.type)
        /\ cpu[1].pc # 1 => cpu[1].regs[req.dest] = PayloadOf(req.src)

\* A symbol with a non-zero payload was unboxed in place and fell through.
FallibleInPlaceReached ==
    /\ req.op = "fallibleUnboxPtr"
    /\ req.type = "SYMBOL"
    /\ req.dest = BoxSrc
    /\ req.src = Boxed("SYMBOL", <<0, 32767, 65535, 65528>>)
    /\ Finished(1)
    /\ cpu[1].regs[BoxSrc] = <<0, 32767, 65535, 65528>>

-----------------------------------------------------------------------------
(* Ordinary loads and stores.  Here mem holds the bytes that have been     *)
(* stored, by 64-bit address; every other byte of memory is Fill of its     *)
(* address.  The machine is little-endian.  A thread records in ea the      *)
(* effective address of its last access and in acc the number of accesses.  *)

as_lbz(rt, ra, imm) == Ins("lbz", rt, ra, "", imm % 65536, 0, 0)

as_lhz(rt, ra, imm) == Ins("lhz", rt, ra, "", imm % 65536, 0, 0)

as_lwz(rt, ra, imm) == Ins("lwz", rt, ra, "", imm % 65536, 0, 0)

as_ld(rt, ra, imm) == Ins("ld", rt, ra, "", imm % 65536, 0, 0)

as_stb(rs, ra, imm) == Ins("stb", rs, ra, "", imm % 65536, 0, 0)

as_sth(rs, ra, imm) == Ins("sth", rs, ra, "", imm % 65536, 0, 0)

as_stw(rs, ra, imm) == Ins("stw", rs, ra, "", imm % 65536, 0, 0)

as_std(rs, ra, imm) == Ins("std", rs, ra, "", imm % 65536, 0, 0)

as_lfd(ft, ra, imm) == Ins("lfd", ft, ra, "", imm % 65536, 0, 0)

as_lfdx(ft, ra, rb) == Ins("lfdx", ft, ra, rb, 0, 0, 0)

LoadOps == {"lbz", "lhz", "lwz", "ld", "lfd", "lfdx"}

StoreOps == {"stb", "sth", "stw", "std"}

\* The number of bytes an access instruction transfers.
AccessBytes(op) ==
    CASE op \in {"lbz", "stb"} -> 1
      [] op \in {"lhz", "sth"} -> 2
      [] op \in {"lwz", "stw"} -> 4
      [] op \in {"ld", "std", "lfd", "lfdx"} -> 8

\* The byte memory holds at address a (four halfwords) before any store.
Fill(a) == (IF (a[4] \div 8) % 2 = 0 THEN 128 ELSE 0) + (a[4] % 8) * 16 + ((a[4] \div 16) % 16)

\* The address k bytes above ea.
AddrPlus(ea, k) == ToHalves(AddV(FromHalves(ea), FromNat(k)))

MemByte(m, a) == IF a \in DOMAIN m THEN m[a] ELSE Fill(a)

\* The n-byte datum at address ea, zero-extended, as four halfwords.
LoadAt(m, ea, n) ==
    [j \in 1..4 |->
        LET k == 2 * (4 - j)
        IN  (IF k < n THEN MemByte(m, AddrPlus(ea, k)) ELSE 0)
            + (IF k + 1 < n THEN 256 * MemByte(m, AddrPlus(ea, k + 1)) ELSE 0)]

\* Memory after the low n bytes of h are stored at address ea.
StoreAt(m, ea, n, h) ==
    LET written == [k \in 0..(n - 1) |-> AddrPlus(ea, k)]
    IN  [x \in DOMAIN m \cup {written[k] : k \in 0..(n - 1)} |->
            IF \E k \in 0..(n - 1) : written[k] = x
            THEN ByteOf(h, CHOOSE k \in 0..(n - 1) : written[k] = x)
            ELSE m[x]]

\* The effective address of access instruction i: (ra|0) + d, or (ra|0) + rb.
EffectiveAddress(i, c) ==
    LET a == IF Ra(i) = "r0" THEN Zero64 ELSE FromHalves(c.regs[Ra(i)])
    IN  ToHalves(AddV(a, IF Op(i) = "lfdx" THEN FromHalves(c.regs[Rb(i)]) ELSE SImm(Imm(i))))

\* One load or store of thread t.
StepLoadStore(t) ==
    LET i == buffer[cpu[t].pc]
        c == cpu[t]
        ea == EffectiveAddress(i, c)
        n == AccessBytes(Op(i))
    IN  /\ Running(t)
        /\ Op(i) \in LoadOps \cup StoreOps
        /\ IF Op(i) \in LoadOps
           THEN /\ cpu' = [cpu EXCEPT ![t] = [c EXCEPT !.regs[Rt(i)] = LoadAt(mem, ea, n),
                                                       !.pc = c.pc + 1, !.ea = ea,
                                                       !.acc = c.acc + 1]]
                /\ mem' = mem
           ELSE /\ cpu' = [cpu EXCEPT ![t] = [c EXCEPT !.pc = c.pc + 1, !.ea = ea,
                                                       !.acc = c.acc + 1]]
                /\ mem' = StoreAt(mem, ea, n, c.regs[Rt(i)])
        /\ UNCHANGED <<buffer, label, sites, req, resv>>

\* Imm16::IsInSignedRange
Imm16_IsInSignedRange(v) == v \in -32768..32767

\* Imm8::IsInSignedRange
Imm8_IsInSignedRange(v) == v \in -128..127

\* ma_dsll(Register rd, Register rt, Imm32 shift)
ma_dsll(rd, rt, shift) == <<as_rldicr(rd, rt, shift, 63 - shift)>>

SizeBytes(size) ==
    CASE size = "SizeByte" -> 1
      [] size = "SizeHalfWord" -> 2
      [] size = "SizeWord" -> 4
      [] size = "SizeDouble" -> 8

\* The switch on size of the loads: the load and, for SignExtend, the extension.
LoadBySize(dest, base, encodedOffset, size, extension) ==
    CASE size = "SizeByte" ->
            <<as_lbz(dest, base, encodedOffset)>>
            \o (IF extension = "SignExtend" THEN <<as_extsb(dest, dest)>> ELSE <<>>)
      [] size = "SizeHalfWord" ->
            <<as_lhz(dest, base, encodedOffset)>>
            \o (IF extension = "SignExtend" THEN <<as_extsh(dest, dest)>> ELSE <<>>)
      [] size = "SizeWord" ->
            <<as_lwz(dest, base, encodedOffset)>>
            \o (IF extension = "SignExtend" THEN <<as_extsw(dest, dest)>> ELSE <<>>)
      [] size = "SizeDouble" -> <<as_ld(dest, base, encodedOffset)>>

\* The switch on size of the stores.
StoreBySize(data, base, encodedOffset, size) ==
    CASE size = "SizeByte" -> <<as_stb(data, base, encodedOffset)>>
      [] size = "SizeHalfWord" -> <<as_sth(data, base, encodedOffset)>>
      [] size = "SizeWord" -> <<as_stw(data, base, encodedOffset)>>
      [] size = "SizeDouble" -> <<as_std(data, base, encodedOffset)>>

\* ma_load(Register dest, Address address, LoadStoreSize, LoadStoreExtension)
ma_load(dest, base, offset, size, extension) ==
    IF ~Imm16_IsInSignedRange(offset) \/ base = ScratchRegister
    THEN ma_li_Imm32(SecondScratchReg, offset)
         \o <<as_add(SecondScratchReg, base, SecondScratchReg)>>
         \o LoadBySize(dest, SecondScratchReg, 0, size, extension)
    ELSE LoadBySize(dest, base, offset, size, extension)

\* ma_store(Register data, Address address, LoadStoreSize, LoadStoreExtension)
ma_store(data, base, offset, size) ==
    IF ~Imm16_IsInSignedRange(offset) \/ base = ScratchRegister
    THEN ma_li_Imm32(SecondScratchReg, offset)
         \o <<as_add(SecondScratchReg, base, SecondScratchReg)>>
         \o StoreBySize(data, SecondScratchReg, 0, size)
    ELSE StoreBySize(data, base, offset, size)

\* computeScaledAddress(const BaseIndex& address, Register dest); shift is
\* Imm32::ShiftOf(address.scale).
computeScaledAddress(base, index, shift, dest) ==
    IF shift # 0
    THEN ma_dsll(ScratchRegister, index, shift) \o <<as_add(dest, base, ScratchRegister)>>
    ELSE <<as_add(dest, base, index)>>

\* ma_add(Register rd, Register rs, Imm32 imm)
ma_add(rd, rs, imm) ==
    IF Imm16_IsInSignedRange(imm) THEN <<as_addi(rd, rs, imm)>>
    ELSE ma_li_Imm32(ScratchRegister, imm) \o <<as_add(rd, rs, ScratchRegister)>>

\* ma_load(Register dest, const BaseIndex& src, LoadStoreSize, LoadStoreExtension)
ma_load_BaseIndex(dest, base, index, shift, offset, size, extension) ==
    IF extension # "ZeroExtend" /\ Imm8_IsInSignedRange(offset)
    THEN \* this switch has the loads alone
         (IF shift # 0 THEN <<as_rldicr(SecondScratchReg, index, shift, 64 - shift)>> ELSE <<>>)
         \o LoadBySize(dest, base, offset, size, "ZeroExtend")
    ELSE computeScaledAddress(base, index, shift, SecondScratchReg)
         \o (IF ~Imm16_IsInSignedRange(offset)
             THEN ma_add(SecondScratchReg, SecondScratchReg, offset)
                  \o ma_load(dest, SecondScratchReg, 0, size, extension)
             ELSE ma_load(dest, SecondScratchReg, offset, size, extension))

\* ma_store(Register data, const BaseIndex& dest, LoadStoreSize, LoadStoreExtension)
ma_store_BaseIndex(data, base, index, shift, offset, size) ==
    IF Imm8_IsInSignedRange(offset)
    THEN (IF shift # 0 THEN ma_dsll(SecondScratchReg, index, shift) ELSE <<>>)
         \o StoreBySize(data, base, offset, size)
    ELSE computeScaledAddress(base, index, shift, SecondScratchReg)
         \o ma_store(data, SecondScratchReg, offset, size)

\* ma_ld(FloatRegister ft, Address address)
ma_ld(ft, base, offset) ==
    IF Imm16_IsInSignedRange(offset) THEN <<as_lfd(ft, base, offset)>>
    ELSE ma_li_Imm32(ScratchRegister, offset) \o <<as_lfdx(ft, base, ScratchRegister)>>

\* loadDouble(const Address& address, FloatRegister dest)
loadDouble(base, offset, dest) == <<as_lfd(dest, base, offset)>>

-----------------------------------------------------------------------------
(* Specification SpecMem: one memory or add-immediate macro is assembled   *)
(* and executed by one thread.                                             *)

\* Offsets and immediates on both sides of the 8-, 16- and 32-bit boundaries.
MemOffsets == {-2147483647 - 1, -32772, -32768, -132, -128, 0, 8, 124, 128, 32764, 32768,
               65532, 65536, 2147483644}

MemBaseValues == {<<0, 1, 0, 0>>, <<0, 0, 0, 4096>>}

MemIndexValues == {<<0, 0, 0, 0>>, <<0, 0, 0, 3>>, <<0, 0, 1, 16>>}

MemSizes == {"SizeByte", "SizeHalfWord", "SizeWord", "SizeDouble"}

MemExtensions == {"ZeroExtend", "SignExtend"}

\* Imm32::ShiftOf of TimesOne, TimesTwo, TimesFour, TimesEight
MemShifts == {0, 1, 2, 3}

MemBase == "r3"

MemIndex == "r4"

MemData == "r5"

MemFloat == "f1"

MemRegs == {"r0", "r3", "r4", "r5", "r12", "f1"}

InitMem ==
    /\ buffer = <<>>
    /\ label = NoLabel
    /\ sites = {}
    /\ req = [op |-> "none", base |-> "", offset |-> 0, shift |-> 0, size |-> "", ext |-> "",
              regs |-> <<>>]
    /\ \E b \in MemBaseValues, x \in MemIndexValues :
          cpu = [t \in {1} |->
                   [regs |-> [r \in MemRegs |->
                                 IF r = MemBase THEN b
                                 ELSE IF r = MemIndex THEN x
                                 ELSE IF r = MemData THEN <<4660, 22136, 39612, 57072>>
                                 ELSE OnesHalves],
                    cr |-> <<0, 0, 0, 0, 0, 0, 0, 0>>, ctr |-> ZeroHalves, lr |-> 0, pc |-> 1,
                    ea |-> ZeroHalves, acc |-> 0]]
    /\ mem = [a \in {} |-> 0]
    /\ resv = <<>>

MemAppend(op, base, offset, shift, size, ext, words) ==
    /\ req.op = "none"
    /\ buffer' = buffer \o words
    /\ req' = [op |-> op, base |-> base, offset |-> offset, shift |-> shift, size |-> size,
               ext |-> ext, regs |-> cpu[1].regs]
    /\ UNCHANGED <<label, sites, cpu, mem, resv>>

MemLoad ==
    \E base \in {MemBase, ScratchRegister}, offset \in MemOffsets, size \in MemSizes, ext \in MemExtensions :
        MemAppend("ma_load", base, offset, 0, size, ext, ma_load(MemData, base, offset, size, ext))

MemStore ==
    \E base \in {MemBase, ScratchRegister}, offset \in MemOffsets, size \in MemSizes :
        MemAppend("ma_store", base, offset, 0, size, "", ma_store(MemData, base, offset, size))

MemLoadBaseIndex ==
    \E shift \in MemShifts, offset \in MemOffsets, size \in MemSizes, ext \in MemExtensions :
        MemAppend("ma_load_BaseIndex", MemBase, offset, shift, size, ext,
                  ma_load_BaseIndex(MemData, MemBase, MemIndex, shift, offset, size, ext))

MemStoreBaseIndex ==
    \E shift \in MemShifts, offset \in MemOffsets, size \in MemSizes :
        MemAppend("ma_store_BaseIndex", MemBase, offset, shift, size, "",
                  ma_store_BaseIndex(MemData, MemBase, MemIndex, shift, offset, size))

MemAdd ==
    \E imm \in MemOffsets, rd \in {MemBase, MemData} :
        MemAppend("ma_add", MemBase, imm, 0, "", rd, ma_add(rd, MemBase, imm))

MemLd ==
    \E offset \in MemOffsets :
        MemAppend("ma_ld", MemBase, offset, 0, "SizeDouble", "", ma_ld(MemFloat, MemBase, offset))

MemLoadDouble ==
    \E offset \in MemOffsets :
        MemAppend("loadDouble", MemBase, offset, 0, "SizeDouble", "",
                  loadDouble(MemBase, offset, MemFloat))

MemExec == req.op # "none" /\ (StepReg(1) \/ StepLoadStore(1))

NextMem ==
    \/ MemLoad
    \/ MemStore
    \/ MemLoadBaseIndex
    \/ MemStoreBaseIndex
    \/ MemAdd
    \/ MemLd
    \/ MemLoadDouble
    \/ MemExec

SpecMem == InitMem /\ [][NextMem]_vars

\* base + offset for the requested operand, from the registers at emission.
AddressTarget == ToHalves(AddV(FromHalves(req.regs[req.base]), FromHalves(Imm32Halves(req.offset))))

\* base + (index << shift) + offset for the requested operand.
BaseIndexTarget ==
    ToHalves(AddV(AddV(FromHalves(req.regs[req.base]), ShlV(FromHalves(req.regs[MemIndex]), req.shift)),
                  FromHalves(Imm32Halves(req.offset))))

\* The positions of the memory-access instructions in the buffer.
Accesses == {k \in 1..Len(buffer) : Op(buffer[k]) \in LoadOps \cup StoreOps}

\* C13: ma_load and ma_store on an Address emit one access instruction with the
\* offset as displacement when the offset is in [-32768, 32767] and the base is
\* not r0, and otherwise one that addresses SecondScratchReg with displacement
\* 0; the address accessed is base + offset, and the store changes neither
\* the data register nor the base register.
AddressAccess ==
    (req.op \in {"ma_load", "ma_store"}) =>
        /\ Cardinality(Accesses) = 1
        /\ \A k \in Accesses :
              IF Imm16_IsInSignedRange(req.offset) /\ req.base # ScratchRegister
              THEN /\ k = 1
                   /\ Ra(buffer[k]) = req.base
                   /\ Imm(buffer[k]) = req.offset % 65536
              ELSE /\ Ra(buffer[k]) = SecondScratchReg
                   /\ Imm(buffer[k]) = 0
        /\ Finished(1) =>
              /\ cpu[1].acc = 1
              /\ cpu[1].ea = AddressTarget
              /\ req.op = "ma_store" =>
                    /\ cpu[1].regs[MemData] = req.regs[MemData]
                    /\ cpu[1].regs[req.base] = req.regs[req.base]

\* C14: the access emitted by ma_load and ma_store for a BaseIndex operand is
\* made at base + (index << log2(scale)) + offset.
BaseIndexAccess ==
    (req.op \in {"ma_load_BaseIndex", "ma_store_BaseIndex"} /\ Finished(1)) =>
        /\ cpu[1].acc = 1
        /\ cpu[1].ea = BaseIndexTarget

\* C15: after a byte, half-word or word load the destination holds the datum
\* at the address accessed, sign-extended to 64 bits for SignExtend and
\* zero-extended for ZeroExtend.
LoadExtension ==
    (req.op \in {"ma_load", "ma_load_BaseIndex"} /\ req.size # "SizeDouble" /\ Finished(1)) =>
        LET v == FromHalves(LoadAt(mem, cpu[1].ea, SizeBytes(req.size)))
        IN  cpu[1].regs[MemData] =
                ToHalves(IF req.ext = "SignExtend" THEN SignExt(v, 8 * SizeBytes(req.size)) ELSE v)

\* C17: every 32-bit immediate or displacement is honoured: ma_add leaves
\* rs + imm in rd, and the loads and stores through an Address access base + offset.
Imm32Honoured ==
    Finished(1) =>
        /\ req.op = "ma_add" =>
              cpu[1].regs[req.ext] =
                  ToHalves(AddV(FromHalves(req.regs[MemBase]), FromHalves(Imm32Halves(req.offset))))
        /\ req.op \in {"ma_load", "ma_store", "ma_ld", "loadDouble"} =>
              cpu[1].acc = 1 /\ cpu[1].ea = AddressTarget

-----------------------------------------------------------------------------
(* Specification SpecEntry: macro-operation entry points whose bodies are  *)
(* a crash or are compiled out.  Compilation proceeds call by call; a      *)
(* MOZ_CRASH ends it.  req records the last call, whether it crashed and    *)
(* how many words it appended.                                              *)

EntryFlags == {"", "TRUNC_UNSIGNED", "TRUNC_SATURATING"}

EntryFromTypes == {"Float32", "Double"}

InitEntry ==
    /\ buffer = <<>>
    /\ label = NoLabel
    /\ sites = {}
    /\ req = [op |-> "none", args |-> <<>>, crashed |-> FALSE, appended |-> 0]
    /\ cpu = <<>>
    /\ mem = <<>>
    /\ resv = <<>>

\* A call that returns having appended words.
EntryReturns(op, args, words) ==
    /\ ~req.crashed
    /\ buffer' = buffer \o words
    /\ req' = [op |-> op, args |-> args, crashed |-> FALSE, appended |-> Len(words)]
    /\ UNCHANGED <<label, sites, cpu, mem, resv>>

\* A call that reaches MOZ_CRASH.
EntryCrashes(op, args) ==
    /\ ~req.crashed
    /\ req' = [op |-> op, args |-> args, crashed |-> TRUE, appended |-> 0]
    /\ UNCHANGED <<buffer, label, sites, cpu, mem, resv>>

\* ma_load_unaligned(access, dest, src, temp, size, extension): the body is under "#if 0".
EntryLoadUnaligned ==
    \E shift \in MemShifts, offset \in MemOffsets, size \in MemSizes, ext \in MemExtensions :
        EntryReturns("ma_load_unaligned", <<shift, offset, size, ext>>, <<>>)

\* ma_store_unaligned(Register, const BaseIndex&, LoadStoreSize)
EntryStoreUnaligned ==
    \E shift \in MemShifts, offset \in MemOffsets, size \in MemSizes :
        EntryCrashes("ma_store_unaligned", <<shift, offset, size>>)

\* ma_store_unaligned(access, data, dest, temp, size, extension): the body is under "#if 0".
EntryStoreUnalignedWasm ==
    \E shift \in MemShifts, offset \in MemOffsets, size \in MemSizes, ext \in MemExtensions :
        EntryReturns("ma_store_unaligned(wasm)", <<shift, offset, size, ext>>, <<>>)

\* outOfLineWasmTruncateToInt32Check: the body is under "#if 0".
EntryTruncateToInt32Check ==
    \E fromType \in EntryFromTypes, flags \in EntryFlags :
        EntryReturns("outOfLineWasmTruncateToInt32Check", <<fromType, flags>>, <<>>)

\* outOfLineWasmTruncateToInt64Check: the body is under "#if 0".
EntryTruncateToInt64Check ==
    \E fromType \in EntryFromTypes, flags \in EntryFlags :
        EntryReturns("outOfLineWasmTruncateToInt64Check", <<fromType, flags>>, <<>>)

\* branchTruncateDoubleToInt32(FloatRegister, Register, Label*)
EntryBranchTruncateDoubleToInt32 == EntryCrashes("branchTruncateDoubleToInt32", <<>>)

\* farJumpWithPatch()
EntryFarJumpWithPatch == EntryCrashes("farJumpWithPatch", <<>>)

\* speculationBarrier()
EntrySpeculationBarrier == EntryCrashes("speculationBarrier", <<>>)

NextEntry ==
    \/ EntryLoadUnaligned
    \/ EntryStoreUnaligned
    \/ EntryStoreUnalignedWasm
    \/ EntryTruncateToInt32Check
    \/ EntryTruncateToInt64Check
    \/ EntryBranchTruncateDoubleToInt32
    \/ EntryFarJumpWithPatch
    \/ EntrySpeculationBarrier

SpecEntry == InitEntry /\ [][NextEntry]_vars

\* C16: a call of an entry point this port does not implement aborts
\* compilation: none returns normally having appended no instructions.
UnimplementedCrashes == (req.op # "none") => (req.crashed \/ req.appended > 0)

-----------------------------------------------------------------------------
(* The other atomic sequences.                                             *)

\* ma_bc(Condition, Label*, JumpKind): a branch on cr0.
ma_bc_cr0(buf, l, c, jumpKind) == ma_bc_cr(buf, l, 0, c, jumpKind)

\* The words that narrow the 1- or 2-byte output to the width of the type.
NarrowOutput(nbytes, signExtend, output) ==
    IF nbytes = 1
    THEN (IF signExtend THEN as_extsb(output, output) ELSE as_andi_rc(output, output, 255))
    ELSE (IF signExtend THEN as_extsh(output, output) ELSE as_andi_rc(output, output, 65535))

\* AtomicExchange(masm, type, sync, Address(base, off), value, valueTemp,
\*                offsetTemp, maskTemp, output): the buffer it leaves.
AtomicExchange(buf, type, base, off, value, valueTemp, offsetTemp, maskTemp, output, flip) ==
    LET nbytes == byteSize(type)
        ea == computeEffectiveAddress(base, off, SecondScratchReg)
    IN  IF nbytes = 4
        THEN LET b1 == buf \o ea \o memoryBarrier
                 again == BoundAt(nextOffset(b1))
                 b2 == b1 \o <<as_lwarx(output, "r0", SecondScratchReg)>>
                          \o ma_move(ScratchRegister, value)
                          \o <<as_stwcx(ScratchRegister, "r0", SecondScratchReg)>>
             IN  b2 \o ma_bc_cr0(b2, again, "Zero", "ShortJump").words \o memoryBarrier
        ELSE LET b1 == buf \o ea
                          \o LaneSetup(nbytes, offsetTemp, maskTemp, flip,
                                       x_sldi(offsetTemp, offsetTemp, 3),
                                       as_sld(maskTemp, maskTemp, offsetTemp))
                          \o <<as_andi_rc(valueTemp, value, IF nbytes = 1 THEN 255 ELSE 65535),
                               as_sld(valueTemp, valueTemp, offsetTemp)>>
                          \o memoryBarrier
                 again == BoundAt(nextOffset(b1))
                 b2 == b1 \o <<as_lwarx(output, "r0", SecondScratchReg),
                                as_and(ScratchRegister, output, maskTemp),
                                as_or(ScratchRegister, ScratchRegister, valueTemp),
                                as_stwcx(ScratchRegister, "r0", SecondScratchReg)>>
             IN  b2 \o ma_bc(b2, again, ScratchRegister, ScratchRegister, "Zero",
                             "ShortJump").words
                    \o <<as_srd(output, output, offsetTemp),
                         NarrowOutput(nbytes, isSignedIntType(type), output)>>
                    \o memoryBarrier

\* AtomicExchange64(masm, sync, Address(base, off), src, output)
AtomicExchange64(buf, base, off, src, output) ==
    LET b1 == buf \o computeEffectiveAddress(base, off, SecondScratchReg) \o memoryBarrier
        tryAgain == BoundAt(nextOffset(b1))
        b2 == b1 \o <<as_ldarx(output, "r0", SecondScratchReg),
                       as_stdcx(src, "r0", SecondScratchReg)>>
    IN  b2 \o ma_bc_cr(b2, tryAgain, 0, "NotEqual", "ShortJump").words \o memoryBarrier

\* AtomicFetchOp64(masm, sync, op, value, Address(base, off), temp, output)
AtomicFetchOp64(buf, op, value, base, off, temp, output) ==
    LET b1 == buf \o computeEffectiveAddress(base, off, SecondScratchReg) \o memoryBarrier
        tryAgain == BoundAt(nextOffset(b1))
        b2 == b1 \o <<as_ldarx(output, "r0", SecondScratchReg),
                       FetchOpWord(op, temp, output, value),
                       as_stdcx(temp, "r0", SecondScratchReg)>>
    IN  b2 \o ma_bc(b2, tryAgain, temp, temp, "NotEqual", "ShortJump").words \o memoryBarrier

\* AtomicEffectOp(masm, type, sync, op, Address(base, off), value, valueTemp,
\*                offsetTemp, maskTemp): the buffer it leaves.
AtomicEffectOp(buf, type, op, base, off, value, valueTemp, offsetTemp, maskTemp, flip) ==
    LET nbytes == byteSize(type)
        ea == computeEffectiveAddress(base, off, SecondScratchReg)
    IN  IF nbytes = 4
        THEN LET b1 == buf \o ea \o memoryBarrier
                 again == BoundAt(nextOffset(b1))
                 b2 == b1 \o <<as_lwarx(ScratchRegister, "r0", SecondScratchReg),
                                FetchOpWord(op, ScratchRegister, ScratchRegister, value),
                                as_stwcx(ScratchRegister, "r0", SecondScratchReg)>>
             IN  b2 \o ma_bc(b2, again, ScratchRegister, ScratchRegister, "Zero",
                             "ShortJump").words
                    \o memoryBarrier
        ELSE LET b1 == buf \o ea
                          \o LaneSetup(nbytes, offsetTemp, maskTemp, flip,
                                       x_sldi(offsetTemp, offsetTemp, 3),
                                       as_sld(maskTemp, maskTemp, offsetTemp))
                          \o memoryBarrier
                 again == BoundAt(nextOffset(b1))
                 b2 == b1 \o <<as_lwarx(ScratchRegister, "r0", SecondScratchReg),
                                as_srd(valueTemp, ScratchRegister, offsetTemp),
                                FetchOpWord(op, valueTemp, valueTemp, value),
                                as_andi_rc(valueTemp, valueTemp,
                                           IF nbytes = 1 THEN 255 ELSE 65535),
                                as_sld(valueTemp, valueTemp, offsetTemp),
                                as_and(ScratchRegister, ScratchRegister, maskTemp),
                                as_or(ScratchRegister, ScratchRegister, valueTemp),
                                as_stwcx(ScratchRegister, "r0", SecondScratchReg)>>
             IN  b2 \o ma_bc(b2, again, ScratchRegister, ScratchRegister, "Zero",
                             "ShortJump").words
                    \o memoryBarrier

-----------------------------------------------------------------------------
(* Specification SpecRetry: one 4-byte or 8-byte atomic sequence is        *)
(* assembled and executed once by one or two threads on one location.      *)
(* SpecRetryFair adds that every thread keeps executing instructions.      *)

RetryThreads == {1, 2}

\* The word or doubleword operated on: zero, one, all ones.
RetryImages == {<<0, 0, 0, 0, 0, 0, 0, 0>>, <<1, 0, 0, 0, 0, 0, 0, 0>>,
                <<255, 255, 255, 255, 255, 255, 255, 255>>}

\* The operand (for compare-exchange, the expected value): 0 and 1.
RetryValues == {<<0, 0, 0, 0>>, <<0, 0, 0, 1>>}

InitRetry ==
    /\ buffer = <<>>
    /\ label = NoLabel
    /\ sites = {}
    /\ \E image \in RetryImages, value \in RetryValues, n \in RetryThreads :
          /\ req = [op |-> "none", type |-> "Int32", addr |-> 0, be |-> FALSE, flip |-> FALSE,
                    mem0 |-> MemOf(image), oldval |-> value]
          /\ mem = MemOf(image)
          /\ cpu = [t \in 1..n |-> AtomicThread(AtomicRegFile(value))]
          /\ resv = [t \in 1..n |-> {}]

RetryAppend(op, type, buf) ==
    /\ req.op = "none"
    /\ buffer' = buf
    /\ req' = [req EXCEPT !.op = op, !.type = type]
    /\ UNCHANGED <<label, sites, cpu, mem, resv>>

RetryCompareExchange ==
    RetryAppend("compareExchange", "Int32",
                CompareExchange(buffer, "Int32", "r6", 0, "r3", "r4", "r7", "r8", "r9", "r5", FALSE))

RetryCompareExchange64 ==
    RetryAppend("compareExchange64", "Int64", CompareExchange64(buffer, "r6", 0, "r3", "r4", "r5"))

RetryExchange ==
    RetryAppend("atomicExchange", "Int32",
                AtomicExchange(buffer, "Int32", "r6", 0, "r3", "r7", "r8", "r9", "r5", FALSE))

RetryExchange64 ==
    RetryAppend("atomicExchange64", "Int64", AtomicExchange64(buffer, "r6", 0, "r3", "r5"))

RetryFetchOp ==
    \E op \in AtomicOps :
        RetryAppend("atomicFetchOp", "Int32",
                    AtomicFetchOp(buffer, "Int32", op, "r6", 0, "r3", "r7", "r8", "r9", "r5", FALSE))

RetryFetchOp64 ==
    \E op \in AtomicOps :
        RetryAppend("atomicFetchOp64", "Int64", AtomicFetchOp64(buffer, op, "r3", "r6", 0, "r7", "r5"))

RetryEffectOp ==
    \E op \in AtomicOps :
        RetryAppend("atomicEffectOp", "Int32",
                    AtomicEffectOp(buffer, "Int32", op, "r6", 0, "r3", "r7", "r8", "r9", FALSE))

\* Thread t executes its next instruction.
RetryExec(t) == req.op # "none" /\ t \in DOMAIN cpu /\ (StepReg(t) \/ StepMem(t))

NextRetry ==
    \/ RetryCompareExchange
    \/ RetryCompareExchange64
    \/ RetryExchange
    \/ RetryExchange64
    \/ RetryFetchOp
    \/ RetryFetchOp64
    \/ RetryEffectOp
    \/ \E t \in RetryThreads : RetryExec(t)

SpecRetry == InitRetry /\ [][NextRetry]_vars

SpecRetryFair == SpecRetry /\ \A t \in RetryThreads : WF_vars(RetryExec(t))

\* C18: once an atomic sequence is assembled, some thread executing it
\* eventually leaves its retry loop and reaches the end of the sequence.
SomeThreadLeaves == (req.op # "none") ~> (\E t \in DOMAIN cpu : Finished(t))

\* Whether the thread in state c, which has just executed a store-conditional,
\* takes the backward branch that follows it (after the compare, if there is one).
RetryTaken(c) ==
    LET c1 == IF Op(buffer[c.pc]) = "bc" THEN c ELSE ExecReg(buffer[c.pc], c)
    IN  ExecReg(buffer[c1.pc], c1).pc <= c1.pc

\* C19: in the 4-byte and 8-byte sequences, the backward branch after a
\* store-conditional is taken exactly when that store-conditional lost its
\* reservation (cr0 without the EQ bit).
RetryOnLostReservation ==
    \A t \in DOMAIN cpu :
        (cpu[t].pc > 1 /\ Op(buffer[cpu[t].pc - 1]) \in {"stwcx.", "stdcx."}) =>
            (RetryTaken(cpu[t]) <=> cpu[t].cr[1] = 0)

-----------------------------------------------------------------------------
(* Specification SpecLane: one 1-byte or 2-byte atomic sequence is         *)
(* assembled for a little-endian build and executed by one thread.         *)

LaneTypes == {"Int8", "Uint8", "Int16", "Uint16"}

\* The aligned offsets of a datum of the type within the word at address 0.
LaneOffsets(type) == {o \in 0..3 : o % byteSize(type) = 0}

LaneImages == {<<17, 34, 51, 68, 4, 5, 6, 7>>, <<0, 255, 128, 1, 4, 5, 6, 7>>}

\* The operand (for compare-exchange, the replacement): within a byte, above
\* a byte, above a half-word, all ones.
LaneValues == {<<0, 0, 0, 90>>, <<0, 0, 0, 346>>, <<0, 0, 1, 90>>, <<65535, 65535, 65535, 65535>>}

\* base r6 holds address 0, r3 the operand or replacement, r4 the expected
\* value of a compare-exchange: the datum that is in memory.
InitLane ==
    /\ buffer = <<>>
    /\ label = NoLabel
    /\ sites = {}
    /\ \E type \in LaneTypes, image \in LaneImages, value \in LaneValues :
          \E off \in LaneOffsets(type) :
             LET expected == Typed(Load(MemOf(image), off, byteSize(type), FALSE), type)
             IN  /\ req = [op |-> "none", type |-> type, addr |-> off, be |-> FALSE,
                           flip |-> FALSE, mem0 |-> MemOf(image), oldval |-> expected]
                 /\ mem = MemOf(image)
                 /\ cpu = [t \in {1} |-> AtomicThread([AtomicRegFile(value) EXCEPT !["r4"] = expected])]
    /\ resv = [t \in {1} |-> {}]

LaneAppend(op, buf) ==
    /\ req.op = "none"
    /\ buffer' = buf
    /\ req' = [req EXCEPT !.op = op]
    /\ UNCHANGED <<label, sites, cpu, mem, resv>>

LaneCompareExchange ==
    LaneAppend("compareExchange",
               CompareExchange(buffer, req.type, "r6", req.addr, "r4", "r3", "r7", "r8", "r9", "r5", FALSE))

LaneExchange ==
    LaneAppend("atomicExchange",
               AtomicExchange(buffer, req.type, "r6", req.addr, "r3", "r7", "r8", "r9", "r5", FALSE))

LaneFetchOp ==
    \E op \in AtomicOps :
        LaneAppend("atomicFetchOp",
                   AtomicFetchOp(buffer, req.type, op, "r6", req.addr, "r3", "r7", "r8", "r9", "r5", FALSE))

LaneEffectOp ==
    \E op \in AtomicOps :
        LaneAppend("atomicEffectOp",
                   AtomicEffectOp(buffer, req.type, op, "r6", req.addr, "r3", "r7", "r8", "r9", FALSE))

LaneExec == req.op # "none" /\ (StepReg(1) \/ StepMem(1))

NextLane == LaneCompareExchange \/ LaneExchange \/ LaneFetchOp \/ LaneEffectOp \/ LaneExec

SpecLane == InitLane /\ [][NextLane]_vars

\* The bytes of memory outside the addressed byte or half-word.
OtherBytes == {a \in DOMAIN mem : a < req.addr \/ a >= req.addr + byteSize(req.type)}

\* C20: a 1-byte or 2-byte atomic sequence changes only the addressed byte
\* or half-word; every other byte of memory keeps the value it had, whatever
\* the operand register holds.
LaneFrame == \A a \in OtherBytes : mem[a] = req.mem0[a]

-----------------------------------------------------------------------------
(* The chain of an unbound label (specification SpecAsm).                  *)

\* The byte offsets of the words of the site s = <<offset, length, macro>>.
SiteOffsets(s) == {s[1] + 4 * j : j \in 0..(s[2] - 1)}

\* The chain from the head of the label, head first.
RECURSIVE ChainSeq(_, _)
ChainSeq(buf, o) ==
    IF o = INVALID_OFFSET THEN <<>> ELSE <<o>> \o ChainSeq(buf, ChainNext(buf, o))

\* C21: while the label is unbound, it is used as soon as a site refers to it,
\* its head lies in the site emitted last, and the chain from its head visits
\* every emitted site exactly once, most recent first, down to INVALID_OFFSET.
ChainComplete ==
    LET chain == ChainSeq(buffer, nextInChain(label))
    IN  ~label.bound =>
           /\ (sites # {}) => label.used
           /\ \A s \in sites : Cardinality({k \in DOMAIN chain : chain[k] \in SiteOffsets(s)}) = 1
           /\ \A k \in DOMAIN chain : \E s \in sites : chain[k] \in SiteOffsets(s)
           /\ \A j, k \in DOMAIN chain : j < k => chain[j] > chain[k]
           /\ (req.op \in {"ma_bc", "ma_b", "ma_bal"})
                 => (label.used /\ label.offset >= OffsetOf(buffer, req.start + 1))

-----------------------------------------------------------------------------
(* Specification SpecBc: conditional branches to one label are assembled,  *)
(* short and long, between runs of other code; the label is bound at some  *)
(* point.  The build is a debug build, in which MOZ_ASSERT aborts, or a    *)
(* release build, in which it is compiled out.                             *)

\* The number of assembler calls.
MaxBc == 3

\* Byte lengths of other code: at, just beyond and far beyond the backward reach of bc.
BcGaps == {32768, 32772, 65536}

\* addLongJump(nextOffset()) of ma_bc: the offsets it adds to the long jumps.
ma_bc_addLongJump(buf, l, jumpKind) ==
    IF l.bound /\ ~BOffImm16_IsInSignedRange(l.offset - nextOffset(buf)) /\ jumpKind # "ShortJump"
    THEN {nextOffset(buf) + 4}
    ELSE {}

InitBc ==
    /\ buffer = <<>>
    /\ label = NoLabel
    /\ sites = {}
    /\ \E debug \in BOOLEAN :
          req = [op |-> "none", start |-> 0, was |-> NoLabel, n |-> 0, kind |-> "ShortJump",
                 cond |-> "Equal", debug |-> debug, crashed |-> FALSE, longJumps |-> {}]
    /\ cpu = <<>>
    /\ mem = <<>>
    /\ resv = <<>>

\* ma_bc(cr0, c, label, jumpKind).  MOZ_ASSERT(BOffImm16::IsInSignedRange(offset))
\* stops a debug build when a short jump is asked for beyond the reach of bc.
BcEmit ==
    \E c \in BranchConditions, jumpKind \in JumpKinds :
        LET e == ma_bc_cr(buffer, label, 0, c, jumpKind)
            asserted == /\ label.bound
                        /\ jumpKind = "ShortJump"
                        /\ ~BOffImm16_IsInSignedRange(label.offset - nextOffset(buffer))
        IN  /\ req.n < MaxBc
            /\ ~req.crashed
            /\ IF asserted /\ req.debug
               THEN /\ req' = [req EXCEPT !.op = "ma_bc", !.start = Len(buffer), !.was = label,
                                          !.n = req.n + 1, !.kind = jumpKind, !.cond = c,
                                          !.crashed = TRUE]
                    /\ UNCHANGED <<buffer, label, sites>>
               ELSE /\ buffer' = buffer \o e.words
                    /\ label' = e.label
                    /\ sites' = sites \cup {<<nextOffset(buffer), Len(e.words), jumpKind>>}
                    /\ req' = [req EXCEPT !.op = "ma_bc", !.start = Len(buffer), !.was = label,
                                          !.n = req.n + 1, !.kind = jumpKind, !.cond = c,
                                          !.longJumps = req.longJumps
                                               \cup ma_bc_addLongJump(buffer, label, jumpKind)]
            /\ UNCHANGED <<cpu, mem, resv>>

BcOther ==
    \E nbytes \in BcGaps :
        /\ req.n < MaxBc
        /\ ~req.crashed
        /\ buffer' = Append(buffer, as_other(nbytes))
        /\ req' = [req EXCEPT !.op = "other", !.start = Len(buffer), !.was = label, !.n = req.n + 1]
        /\ UNCHANGED <<label, sites, cpu, mem, resv>>

BcBind ==
    /\ req.n < MaxBc
    /\ ~req.crashed
    /\ ~label.bound
    /\ BindReaches(buffer, label, nextOffset(buffer))
    /\ buffer' = bind(buffer, label, nextOffset(buffer))
    /\ label' = [bound |-> TRUE, used |-> FALSE, offset |-> nextOffset(buffer)]
    /\ req' = [req EXCEPT !.op = "bind", !.start = Len(buffer), !.was = label, !.n = req.n + 1]
    /\ UNCHANGED <<sites, cpu, mem, resv>>

NextBc == BcEmit \/ BcOther \/ BcBind

SpecBc == InitBc /\ [][NextBc]_vars

\* The words the last call appended.
BcWords == SubSeq(buffer, req.start + 1, Len(buffer))

\* The displacement the last ma_bc had to encode.
BcOffset == req.was.offset - OffsetOf(buffer, req.start + 1)

BcFits == BOffImm16_IsInSignedRange(BcOffset)

\* The long-branch stanza behind the inverted branch: the 5-word patchable
\* load into r12, the move to the count register, the indirect branch.
IsStanza(ws) ==
    /\ Len(ws) = 7
    /\ <<Op(ws[1]), Op(ws[2]), Op(ws[3]), Op(ws[4]), Op(ws[5])>> = <<"lis", "ori", "rldicr", "oris", "ori">>
    /\ \A j \in 1..5 : Rt(ws[j]) = SecondScratchReg
    /\ ws[6] = xs_mtctr(SecondScratchReg)
    /\ ws[7] = as_bctr(0)

\* C22: ma_bc for a bound label appends one bc to the label when the
\* displacement fits, whatever jump was asked for; otherwise the bc on the
\* inverted condition over the 7-word stanza, whose load it registers as a
\* long jump; a short jump asked for beyond the reach of bc appends nothing.
BoundBranchForm ==
    (req.op = "ma_bc" /\ req.was.bound) =>
        IF BcFits
        THEN /\ ~req.crashed
             /\ BcWords = <<as_bc(BcOffset, req.cond, 0)>>
        ELSE IF req.kind = "ShortJump"
        THEN req.crashed /\ BcWords = <<>>
        ELSE /\ ~req.crashed
             /\ Len(BcWords) = 8
             /\ BcWords[1] = as_bc(32, InvertCondition(req.cond), 0)
             /\ IsStanza(SubSeq(BcWords, 2, 8))
             /\ OffsetOf(buffer, req.start + 2) \in req.longJumps

\* C22, by build: as BoundBranchForm, except that only a debug build stops
\* at a short jump asked for beyond the reach of bc; a release build appends
\* one bc whose 16-bit displacement field cannot hold the displacement.
BoundBranchFormByBuild ==
    (req.op = "ma_bc" /\ req.was.bound) =>
        IF BcFits
        THEN /\ ~req.crashed
             /\ BcWords = <<as_bc(BcOffset, req.cond, 0)>>
        ELSE IF req.kind = "ShortJump"
        THEN IF req.debug
             THEN req.crashed /\ BcWords = <<>>
             ELSE /\ ~req.crashed
                  /\ Len(BcWords) = 1
                  /\ Op(BcWords[1]) = "bc"
                  /\ Ra(BcWords[1]) = req.cond
                  /\ BOffImm16_IsInSignedRange(Imm(BcWords[1]))
                  /\ Imm(BcWords[1]) # BcOffset
        ELSE /\ ~req.crashed
             /\ Len(BcWords) = 8
             /\ BcWords[1] = as_bc(32, InvertCondition(req.cond), 0)
             /\ IsStanza(SubSeq(BcWords, 2, 8))
             /\ OffsetOf(buffer, req.start + 2) \in req.longJumps

\* A jump was asked for to a bound label out of the reach of bc, and the
\* build went on: the long stanza, or the short branch of a release build.
BoundOutOfReachReached ==
    /\ req.op = "ma_bc"
    /\ req.was.bound
    /\ ~BcFits
    /\ ~req.crashed
    /\ (req.kind = "LongJump" => req.longJumps # {})
    /\ (req.kind = "ShortJump" => ~req.debug)

\* The space the long form reserves while the label is unbound: the tagged
\* trap, the chain word and five no-ops.
IsReserved(ws) ==
    /\ Len(ws) = 7
    /\ ws[1] = xs_trap_tagged("LongJumpTag")
    /\ Op(ws[2]) = "word"
    /\ \A j \in 3..7 : ws[j] = as_nop

-----------------------------------------------------------------------------
(* The barriers of an atomic sequence (specification SpecRetry).           *)

\* The indices of the barriers and of the load-reserves and store-conditionals.
BarrierWords == {k \in DOMAIN buffer : Op(buffer[k]) = "lwsync"}

ReserveWords == {k \in DOMAIN buffer : Op(buffer[k]) \in MemOps}

Min(S) == CHOOSE x \in S : \A y \in S : x <= y

\* The index a branch at index k goes to when taken.
BranchTarget(k) == k + (Imm(buffer[k]) \div 4)

\* The sequence has two barriers with every load-reserve and store-conditional
\* between them; no branch goes back to or before the first barrier, and the
\* forward branch (the failure exit of compare-exchange) passes the second.
BarriersEnclose ==
    /\ Cardinality(BarrierWords) = 2
    /\ \A m \in ReserveWords : Min(BarrierWords) < m /\ m < Max(BarrierWords)
    /\ \A k \in DOMAIN buffer :
          Op(buffer[k]) = "bc" =>
             IF Imm(buffer[k]) < 0
             THEN BranchTarget(k) > Min(BarrierWords) /\ BranchTarget(k) <= Min(ReserveWords)
             ELSE BranchTarget(k) > Max(BarrierWords)

\* C23: the barrier before stands once ahead of the retry label and of the
\* first load-reserve, the barrier after behind every load-reserve and
\* store-conditional and off the failure exit of compare-exchange, and a
\* thread whose store-conditional succeeded goes on to the barrier after.
BarrierPlacement ==
    (req.op # "none") =>
        /\ BarriersEnclose
        /\ \A t \in DOMAIN cpu :
              (/\ cpu[t].pc > 1
               /\ Op(buffer[cpu[t].pc - 1]) \in {"stwcx.", "stdcx."}
               /\ cpu[t].cr[1] = 2)
                 => ~RetryTaken(cpu[t])

-----------------------------------------------------------------------------
(* Specification SpecField: one bit-field extraction or insertion, or one  *)
(* of the value operations built on them, is assembled and executed.       *)

\* loadPtr(const Address&, Register)
loadPtr(base, offset, dest) == ma_load(dest, base, offset, "SizeDouble", "ZeroExtend")

\* storePtr(Register, const Address&)
storePtr(src, base, offset) == ma_store(src, base, offset, "SizeDouble")

\* extractObject(const Address&, Register scratch)
extractObject(base, offset, scratch) ==
    loadPtr(base, offset, scratch) \o ma_dext(scratch, scratch, 0, JSVAL_TAG_SHIFT)

\* extractTag(const Address&, Register scratch)
extractTag(base, offset, scratch) ==
    loadPtr(base, offset, scratch)
    \o ma_dext(scratch, scratch, JSVAL_TAG_SHIFT, 64 - JSVAL_TAG_SHIFT)

\* Imm64(tag).secondHalf() of the shifted tag of the type: its high word, as an int32.
ShiftedTagSecondHalf(type) ==
    LET t == JSVAL_TYPE_TO_SHIFTED_TAG(type)
        u == (t[1] % 32768) * 65536 + t[2]
    IN  IF t[1] >= 32768 THEN (u - 2147483647) - 1 ELSE u

\* storeValue(JSValueType type, Register reg, Address dest)
storeValue(type, reg, base, offset) ==
    IF type \in {"INT32", "BOOLEAN"}
    THEN ma_store(reg, base, offset, "SizeWord")
         \o ma_li_Imm32(SecondScratchReg, ShiftedTagSecondHalf(type))
         \o ma_store(SecondScratchReg, base, offset + 4, "SizeWord")
    ELSE ma_li_Imm32(SecondScratchReg, JSVAL_TYPE_TO_TAG(type))
         \o ma_dsll(SecondScratchReg, SecondScratchReg, JSVAL_TAG_SHIFT)
         \o ma_dins(SecondScratchReg, reg, 0, JSVAL_TAG_SHIFT)
         \o storePtr(SecondScratchReg, base, offset)

\* The words operated on: a mixed pattern, a boxed object, one, all ones.
FieldWords == {<<4660, 22136, 39612, 57072>>, Boxed("OBJECT", <<0, 21, 43981, 61432>>),
               <<0, 0, 0, 1>>, OnesHalves}

\* What the destination holds beforehand.
FieldDests == {ZeroHalves, <<43690, 21845, 43690, 21845>>}

\* <<pos, size>> with pos + size <= 64: the payload and tag fields and others.
FieldRanges == {<<0, 47>>, <<47, 17>>, <<0, 64>>, <<16, 32>>, <<32, 32>>, <<8, 8>>, <<0, 1>>, <<63, 1>>}

FieldBase == "r3"

FieldSrc == "r4"

FieldDest == "r5"

FieldRegs == {"r0", "r3", "r4", "r5", "r12"}

FieldAddr == <<0, 0, 0, 4096>>

\* r3 holds the address of the word in memory, r4 the word, r5 the destination.
InitField ==
    /\ buffer = <<>>
    /\ label = NoLabel
    /\ sites = {}
    /\ \E w \in FieldWords, d \in FieldDests :
          /\ req = [op |-> "none", type |-> "", pos |-> 0, size |-> 0, src |-> w, dest |-> d]
          /\ cpu = [t \in {1} |->
                      [regs |-> [r \in FieldRegs |->
                                    IF r = FieldBase THEN FieldAddr
                                    ELSE IF r = FieldSrc THEN w
                                    ELSE IF r = FieldDest THEN d
                                    ELSE OnesHalves],
                       cr |-> <<0, 0, 0, 0, 0, 0, 0, 0>>, ctr |-> ZeroHalves, lr |-> 0,
                       pc |-> 1, ea |-> ZeroHalves, acc |-> 0]]
          /\ mem = StoreAt([a \in {} |-> 0], FieldAddr, 8, w)
    /\ resv = <<>>

FieldAppend(op, type, pos, size, words) ==
    /\ req.op = "none"
    /\ buffer' = buffer \o words
    /\ req' = [req EXCEPT !.op = op, !.type = type, !.pos = pos, !.size = size]
    /\ UNCHANGED <<label, sites, cpu, mem, resv>>

FieldDext ==
    \E r \in FieldRanges :
        FieldAppend("ma_dext", "", r[1], r[2], ma_dext(FieldDest, FieldSrc, r[1], r[2]))

FieldExtractTag ==
    FieldAppend("extractTag", "", JSVAL_TAG_SHIFT, 64 - JSVAL_TAG_SHIFT,
                extractTag(FieldBase, 0, FieldDest))

FieldExtractObject ==
    FieldAppend("extractObject", "", 0, JSVAL_TAG_SHIFT, extractObject(FieldBase, 0, FieldDest))

FieldDins ==
    \E r \in FieldRanges :
        FieldAppend("ma_dins", "", r[1], r[2], ma_dins(FieldDest, FieldSrc, r[1], r[2]))

FieldTagValue ==
    \E type \in BoxTypes, dest \in {FieldSrc, FieldDest} :
        FieldAppend("tagValue", type, JSVAL_TAG_SHIFT, IF dest = FieldSrc THEN 0 ELSE 1,
                    tagValue(type, FieldSrc, dest))

FieldStoreValue ==
    \E type \in BoxTypes :
        FieldAppend("storeValue", type, 0, JSVAL_TAG_SHIFT, storeValue(type, FieldSrc, FieldBase, 0))

FieldExec == req.op # "none" /\ (StepReg(1) \/ StepLoadStore(1))

NextField ==
    \/ FieldDext
    \/ FieldExtractTag
    \/ FieldExtractObject
    \/ FieldDins
    \/ FieldTagValue
    \/ FieldStoreValue
    \/ FieldExec

SpecField == InitField /\ [][NextField]_vars

\* (w >> pos) mod 2^size
FieldOf(w, pos, size) == ToHalves(ZeroExt(ShrV(FromHalves(w), pos), size))

\* d with its bits [pos, pos + size) replaced by the low size bits of w.
FieldInto(d, w, pos, size) ==
    ToHalves([i \in Bits |-> IF i >= pos /\ i < pos + size THEN FromHalves(w)[i - pos]
                             ELSE FromHalves(d)[i]])

\* C24: ma_dext(rt, rs, pos, size) leaves (rs >> pos) mod 2^size in rt;
\* extractTag leaves the word shifted right by JSVAL_TAG_SHIFT, extractObject
\* the word modulo 2^JSVAL_TAG_SHIFT.
DextExtracts ==
    (req.op \in {"ma_dext", "extractTag", "extractObject"} /\ Finished(1)) =>
        cpu[1].regs[FieldDest] = FieldOf(req.src, req.pos, req.size)

\* The register tagValue was assembled for.
TagValueDest == IF req.size = 0 THEN FieldSrc ELSE FieldDest

\* C25: ma_dins(rt, rs, pos, size) replaces bits [pos, pos + size) of rt by
\* the low size bits of rs and leaves the other bits of rt; tagValue leaves
\* the payload bits below the tag of the type; storeValue of a pointer type
\* stores the tag of the type above the payload.
DinsInserts ==
    /\ (req.op = "ma_dins" /\ Finished(1)) =>
          cpu[1].regs[FieldDest] = FieldInto(req.dest, req.src, req.pos, req.size)
    /\ (req.op = "tagValue" /\ Finished(1)) =>
          cpu[1].regs[TagValueDest]
             = FieldInto(req.src, Imm32Halves(JSVAL_TYPE_TO_TAG(req.type)), JSVAL_TAG_SHIFT,
                         64 - JSVAL_TAG_SHIFT)
    /\ (req.op = "storeValue" /\ req.type \in PtrTypes /\ Finished(1)) =>
          LoadAt(mem, FieldAddr, 8)
             = FieldInto(JSVAL_TYPE_TO_SHIFTED_TAG(req.type), req.src, 0, JSVAL_TAG_SHIFT)

-----------------------------------------------------------------------------
(* Specification SpecConv: convertDoubleToInt32 is assembled behind the    *)
(* bound label fail and executed on one double.                            *)

StackPointer == "r1"

ScratchDoubleReg == "f0"

as_fctiwz_rc(frt, frb) == Ins("fctiwz.", frt, "", frb, 0, 0, 0)

as_stfd(frs, ra, d) == Ins("stfd", frs, ra, "", d % 65536, 0, 0)

as_stfdu(frs, ra, d) == Ins("stfdu", frs, ra, "", d % 65536, 0, 0)

FloatOps == {"fctiwz.", "stfd", "stfdu"}

\* The doubles converted: 0.0, -0.0, 1.0, -3.0, 1.5, 2^40 and a NaN.
ConvDoubles == {<<0, 0, 0, 0>>, <<32768, 0, 0, 0>>, <<16368, 0, 0, 0>>, <<49160, 0, 0, 0>>,
                <<16376, 0, 0, 0>>, <<17008, 0, 0, 0>>, <<32760, 0, 0, 0>>}

\* fctiwz. on the doubles above: the low word of the result, and the field
\* FX, FEX, VX, OX it copies to cr1 (FX with XX for an inexact and with VX
\* for an invalid conversion, exceptions disabled and none pending).
FctiwzWord(d) ==
    CASE d \in {<<0, 0, 0, 0>>, <<32768, 0, 0, 0>>} -> <<0, 0>>
      [] d \in {<<16368, 0, 0, 0>>, <<16376, 0, 0, 0>>} -> <<0, 1>>
      [] d = <<49160, 0, 0, 0>> -> <<65535, 65533>>
      [] d = <<17008, 0, 0, 0>> -> <<32767, 65535>>
      [] d = <<32760, 0, 0, 0>> -> <<32768, 0>>

FctiwzCr1(d) ==
    CASE d \in {<<0, 0, 0, 0>>, <<32768, 0, 0, 0>>, <<16368, 0, 0, 0>>, <<49160, 0, 0, 0>>} -> 0
      [] d = <<16376, 0, 0, 0>> -> 8
      [] d \in {<<17008, 0, 0, 0>>, <<32760, 0, 0, 0>>} -> 10

\* The high word of the result of fctiwz is undefined: two values a processor may leave.
FctiwzHighWords == {<<0, 0>>, <<65528, 0>>}

\* One floating-point conversion or store of thread t.
StepFloat(t) ==
    LET i == buffer[cpu[t].pc]
        c == cpu[t]
        ea == EffectiveAddress(i, c)
    IN  /\ Running(t)
        /\ Op(i) \in FloatOps
        /\ IF Op(i) = "fctiwz."
           THEN /\ \E hi \in FctiwzHighWords :
                      cpu' = [cpu EXCEPT ![t] =
                                [c EXCEPT !.regs[Rt(i)] = hi \o FctiwzWord(c.regs[Rb(i)]),
                                          !.cr[2] = FctiwzCr1(c.regs[Rb(i)]),
                                          !.pc = c.pc + 1]]
                /\ mem' = mem
           ELSE /\ cpu' = [cpu EXCEPT ![t] =
                             [c EXCEPT !.regs[Ra(i)] = IF Op(i) = "stfdu" THEN ea ELSE c.regs[Ra(i)],
                                       !.pc = c.pc + 1, !.ea = ea, !.acc = c.acc + 1]]
                /\ mem' = StoreAt(mem, ea, 8, c.regs[Rt(i)])
        /\ UNCHANGED <<buffer, label, sites, req, resv>>

\* convertDoubleToInt32(FloatRegister src, Register dest, Label* fail,
\*                      bool negativeZeroCheck): the words appended and the label fail.
convertDoubleToInt32(buf, l, src, dest, negativeZeroCheck) ==
    LET b0 == buf \o <<as_fctiwz_rc(ScratchDoubleReg, src)>>
        e1 == ma_bc_cr(b0, l, 1, "LessThan", "LongJump")
        b2 == b0 \o e1.words \o <<as_stfdu(ScratchDoubleReg, StackPointer, -8),
                                   as_lwz(dest, StackPointer, 0)>>
    IN  IF negativeZeroCheck
        THEN LET b3 == Append(b2, as_cmpldi(dest, 0))
                 e2 == ma_bc_cr(b3, NoLabel, 0, "NotEqual", "ShortJump")
                 b4 == b3 \o e2.words
                          \o <<as_stfd(src, StackPointer, 0),
                               as_lwz(ScratchRegister, StackPointer, 0),
                               as_lwz(SecondScratchReg, StackPointer, 4),
                               as_cmplw(ScratchRegister, SecondScratchReg),
                               as_addi(StackPointer, StackPointer, 8)>>
                 e3 == ma_bc_cr(b4, e1.label, 0, "NotEqual", "LongJump")
                 b5 == b4 \o e3.words
             IN  Emitted(SubSeq(bind(b5, e2.label, nextOffset(b5)), Len(buf) + 1, Len(b5)),
                         e3.label)
        ELSE Emitted(SubSeq(b2, Len(buf) + 1, Len(b2))
                     \o <<as_addi(StackPointer, StackPointer, 8)>>, e1.label)

ConvSrc == "f1"

ConvDest == "r3"

ConvRegs == {"r0", "r1", "r3", "r12", "f0", "f1"}

\* The stack pointer on entry.
ConvStacks == {<<0, 0, 0, 4096>>, <<0, 0, 1, 0>>}

\* The label fail is bound at word 1; the sequence follows it.
InitConv ==
    /\ buffer = <<as_nop>>
    /\ label = [bound |-> TRUE, used |-> FALSE, offset |-> 0]
    /\ sites = {}
    /\ \E d \in ConvDoubles, sp \in ConvStacks :
          /\ req = [op |-> "none", src |-> d, sp |-> sp, negativeZeroCheck |-> FALSE]
          /\ cpu = [t \in {1} |->
                      [regs |-> [r \in ConvRegs |->
                                    IF r = ConvSrc THEN d
                                    ELSE IF r = StackPointer THEN sp ELSE OnesHalves],
                       cr |-> <<0, 0, 0, 0, 0, 0, 0, 0>>, ctr |-> ZeroHalves, lr |-> 0,
                       pc |-> 2, ea |-> ZeroHalves, acc |-> 0]]
    /\ mem = [a \in {} |-> 0]
    /\ resv = <<>>

ConvEmit ==
    \E negativeZeroCheck \in BOOLEAN :
        /\ req.op = "none"
        /\ buffer' = buffer \o convertDoubleToInt32(buffer, label, ConvSrc, ConvDest,
                                                    negativeZeroCheck).words
        /\ req' = [req EXCEPT !.op = "convertDoubleToInt32",
                              !.negativeZeroCheck = negativeZeroCheck]
        /\ UNCHANGED <<label, sites, cpu, mem, resv>>

\* The thread runs the sequence; a taken branch to fail leaves it at word 1.
ConvExec ==
    /\ req.op # "none"
    /\ cpu[1].pc > 1
    /\ (StepReg(1) \/ StepLoadStore(1) \/ StepFloat(1))

NextConv == ConvEmit \/ ConvExec

SpecConv == InitConv /\ [][NextConv]_vars

\* The thread has left the sequence: at its end, or at the label fail.
ConvLeft == req.op # "none" /\ cpu[1].pc \in {1, Len(buffer) + 1}

\* C27: on every exit of the code of convertDoubleToInt32 the stack pointer
\* has the value it had on entry.
ConvKeepsStackPointer == ConvLeft => cpu[1].regs[StackPointer] = req.sp

-----------------------------------------------------------------------------
(* Specification SpecWord: a pointer-width branch against an immediate is  *)
(* assembled behind a bound label and executed on one register value.      *)

\* imm.value <= INT32_MAX, for the uintptr_t imm.value as halfwords.
AtMostInt32Max(imm) == imm[1] = 0 /\ imm[2] = 0 /\ imm[3] < 32768

\* ma_bc(Register lhs, ImmWord imm, Label*, Condition, JumpKind)
ma_bc_ImmWord(buf, l, lhs, imm, c, jumpKind) ==
    IF AtMostInt32Max(imm)
    THEN ma_bc_Imm32(buf, l, lhs, imm[3] * 65536 + imm[4], c, jumpKind)
    ELSE LET li == ma_li(ScratchRegister, imm)
             e == ma_bc(buf \o li, l, lhs, ScratchRegister, c, jumpKind)
         IN  Emitted(li \o e.words, e.label)

\* branchPtr(Condition, Register lhs, ImmWord rhs, Label*)
branchPtr_ImmWord(buf, l, c, lhs, rhs) == ma_bc_ImmWord(buf, l, lhs, rhs, c, "LongJump")

\* The register values and immediates: 0, 5, 40000, INT32_MAX, 2^31,
\* 2^32 + 5, 2^48 and 2^64 - 1.
WordValues == {<<0, 0, 0, 0>>, <<0, 0, 0, 5>>, <<0, 0, 0, 40000>>, <<0, 0, 32767, 65535>>,
               <<0, 0, 32768, 0>>, <<0, 1, 0, 5>>, <<1, 0, 0, 0>>,
               <<65535, 65535, 65535, 65535>>}

WordConditions == {"Equal", "NotEqual"}

WordLhs == "r3"

InitWord ==
    /\ buffer = <<as_nop>>
    /\ label = [bound |-> TRUE, used |-> FALSE, offset |-> 0]
    /\ sites = {}
    /\ req = [op |-> "none", c |-> "Equal", imm |-> ZeroHalves]
    /\ \E a \in WordValues :
          cpu = [t \in {1} |->
                   [regs |-> [r \in {WordLhs, ScratchRegister} |->
                                 IF r = WordLhs THEN a ELSE OnesHalves],
                    cr |-> <<0, 0, 0, 0, 0, 0, 0, 0>>, ctr |-> ZeroHalves, lr |-> 0, pc |-> 2]]
    /\ mem = <<>>
    /\ resv = <<>>

WordEmit ==
    \E c \in WordConditions, imm \in WordValues :
        /\ req.op = "none"
        /\ buffer' = buffer \o branchPtr_ImmWord(buffer, label, c, WordLhs, imm).words
        /\ req' = [op |-> "branchPtr", c |-> c, imm |-> imm]
        /\ UNCHANGED <<label, sites, cpu, mem, resv>>

\* The thread runs the sequence; a taken branch leaves it at the label, word 1.
WordExec == req.op # "none" /\ cpu[1].pc > 1 /\ StepReg(1)

NextWord == WordEmit \/ WordExec

SpecWord == InitWord /\ [][NextWord]_vars

WordDone == req.op # "none" /\ cpu[1].pc \in {1, Len(buffer) + 1}

\* C28: the branch of branchPtr(Equal, lhs, ImmWord, label) is taken iff all
\* 64 bits of the register equal the immediate, that of NotEqual iff they do
\* not, for every immediate.
BranchPtrComparesAllBits ==
    WordDone => (cpu[1].pc = 1 <=> (req.c = "Equal" <=> cpu[1].regs[WordLhs] = req.imm))

-----------------------------------------------------------------------------
(* 32-bit multiplication and division.                                     *)

as_divw(rt, ra, rb) == Ins("divw", rt, ra, rb, 0, 0, 0)

as_divwu(rt, ra, rb) == Ins("divwu", rt, ra, rb, 0, 0, 0)

as_mullw(rt, ra, rb) == Ins("mullw", rt, ra, rb, 0, 0, 0)

x_mr(rd, rs) == as_or(rd, rs, rs)

MulDivOps == {"divw", "divwu", "mullw"}

\* The low word of h, sign-extended to 64 bits.
SignExtWord(h) == IF h[3] >= 32768 THEN <<65535, 65535, h[3], h[4]>> ELSE <<0, 0, h[3], h[4]>>

\* The low word of h as a signed integer.
SignedWord(h) == (IF h[3] >= 32768 THEN h[3] - 65536 ELSE h[3]) * 65536 + h[4]

\* The sum of the byte products of x and y of significance k, from byte i of x on.
RECURSIVE ColSum(_, _, _, _)
ColSum(x, y, k, i) ==
    IF i > k THEN 0 ELSE ByteOf(x, i) * ByteOf(y, k - i) + ColSum(x, y, k, i + 1)

RECURSIVE MulCarryIn(_, _, _)
MulCarryIn(x, y, k) ==
    IF k = 0 THEN 0 ELSE (ColSum(x, y, k - 1, 0) + MulCarryIn(x, y, k - 1)) \div 256

ProductByte(x, y, k) == (ColSum(x, y, k, 0) + MulCarryIn(x, y, k)) % 256

\* x * y modulo 2^64.
MulHalves(x, y) ==
    [j \in 1..4 |-> ProductByte(x, y, 2 * (4 - j)) + 256 * ProductByte(x, y, 2 * (4 - j) + 1)]

\* a / b for a divisor b > 0, rounded towards zero.
PosDiv(a, b) == IF a >= 0 \/ a % b = 0 THEN a \div b ELSE (a \div b) + 1

\* a / b rounded towards zero, for b # 0 and (a, b) other than (INT32_MIN, -1).
TruncDiv(a, b) ==
    IF b > 0 THEN PosDiv(a, b)
    ELSE IF b = SignedWord(<<0, 0, 32768, 0>>) THEN (IF a = b THEN 1 ELSE 0)
    ELSE 0 - PosDiv(a, 0 - b)

\* The quotient of the low words of a and b as unsigned integers, b # 0, as two halfwords.
DivWordU(a, b) ==
    IF b[3] >= 32768
    THEN <<0, IF a[3] > b[3] \/ (a[3] = b[3] /\ a[4] >= b[4]) THEN 1 ELSE 0>>
    ELSE LET bi == b[3] * 65536 + b[4]
             ah == a[3] * 32768 + (a[4] \div 2)
             al == a[4] % 2
             qh == ah \div bi
             r == ah % bi
             bit == IF r >= bi - r - al THEN 1 ELSE 0
         IN  <<qh \div 32768, 2 * (qh % 32768) + bit>>

\* The quotient of the low words of a and b as signed integers, as two halfwords.
DivWordS(a, b) == SubSeq(Imm32Halves(TruncDiv(SignedWord(a), SignedWord(b))), 3, 4)

\* divw and divwu leave the quotient undefined for a zero divisor, divw also for INT32_MIN / -1.
DivUndefined(op, a, b) ==
    \/ b[3] = 0 /\ b[4] = 0
    \/ op = "divw" /\ a[3] = 32768 /\ a[4] = 0 /\ b[3] = 65535 /\ b[4] = 65535

\* Words an undefined quotient may be, and high words a divide may leave.
UndefinedWords == {<<0, 0>>, <<65535, 65535>>}

\* One mullw, divw or divwu of thread t; the high word of a quotient is undefined.
StepMulDiv(t) ==
    LET i == buffer[cpu[t].pc]
        c == cpu[t]
        a == c.regs[Ra(i)]
        b == c.regs[Rb(i)]
        W(h) == cpu' = [cpu EXCEPT ![t] = [c EXCEPT !.regs[Rt(i)] = h, !.pc = c.pc + 1]]
    IN  /\ Running(t)
        /\ Op(i) \in MulDivOps
        /\ IF Op(i) = "mullw" THEN W(MulHalves(SignExtWord(a), SignExtWord(b)))
           ELSE \E hi \in UndefinedWords :
                   IF DivUndefined(Op(i), a, b) THEN \E q \in UndefinedWords : W(hi \o q)
                   ELSE W(hi \o (IF Op(i) = "divw" THEN DivWordS(a, b) ELSE DivWordU(a, b)))
        /\ UNCHANGED <<buffer, label, sites, req, mem, resv>>

\* quotient32(Register rhs, Register srcDest, bool isUnsigned)
quotient32(rhs, srcDest, isUnsigned) ==
    <<IF isUnsigned THEN as_divwu(srcDest, srcDest, rhs) ELSE as_divw(srcDest, srcDest, rhs)>>

\* remainder32(Register rhs, Register srcDest, bool isUnsigned)
remainder32(rhs, srcDest, isUnsigned) ==
    <<IF isUnsigned THEN as_divwu(ScratchRegister, srcDest, rhs)
      ELSE as_divw(ScratchRegister, srcDest, rhs),
      as_mullw(SecondScratchReg, ScratchRegister, rhs),
      as_subf(srcDest, SecondScratchReg, srcDest)>>

\* flexibleRemainder32(Register rhs, Register srcDest, bool isUnsigned, const LiveRegisterSet&)
flexibleRemainder32(rhs, srcDest, isUnsigned) ==
    <<IF isUnsigned THEN as_divwu(ScratchRegister, srcDest, rhs)
      ELSE as_divw(ScratchRegister, srcDest, rhs),
      as_mullw(ScratchRegister, ScratchRegister, rhs),
      as_subf(srcDest, rhs, srcDest)>>

\* flexibleQuotient32(Register rhs, Register srcDest, bool isUnsigned, const LiveRegisterSet&)
flexibleQuotient32(rhs, srcDest, isUnsigned) == quotient32(rhs, srcDest, isUnsigned)

\* flexibleDivMod32(Register rhs, Register srcDest, Register remOutput, bool isUnsigned,
\*                  const LiveRegisterSet&)
flexibleDivMod32(rhs, srcDest, remOutput, isUnsigned) ==
    <<IF isUnsigned THEN as_divwu(ScratchRegister, srcDest, rhs)
      ELSE as_divw(ScratchRegister, srcDest, rhs),
      as_mullw(remOutput, srcDest, rhs),
      as_subf(remOutput, ScratchRegister, srcDest),
      x_mr(srcDest, ScratchRegister)>>

-----------------------------------------------------------------------------
(* Specification SpecDiv: a division sequence is assembled and executed on *)
(* a dividend and a non-zero divisor.                                      *)

\* 32-bit operands, sign-extended: 0, 1, 2, 7, 100, 65539, INT32_MAX, INT32_MIN, -7, -1.
DivValues == {<<0, 0, 0, 0>>, <<0, 0, 0, 1>>, <<0, 0, 0, 2>>, <<0, 0, 0, 7>>, <<0, 0, 0, 100>>,
              <<0, 0, 1, 3>>, <<0, 0, 32767, 65535>>, <<65535, 65535, 32768, 0>>,
              <<65535, 65535, 65535, 65529>>, <<65535, 65535, 65535, 65535>>}

DivRhs == "r4"

DivSrcDest == "r3"

DivRemOutput == "r5"

DivRegs == {"r0", "r3", "r4", "r5", "r12"}

InitDiv ==
    /\ buffer = <<>>
    /\ label = NoLabel
    /\ sites = {}
    /\ \E a \in DivValues, b \in DivValues \ {ZeroHalves} :
          /\ req = [op |-> "none", isUnsigned |-> FALSE, lhs |-> a, rhs |-> b]
          /\ cpu = [t \in {1} |->
                      [regs |-> [r \in DivRegs |-> IF r = DivSrcDest THEN a
                                                   ELSE IF r = DivRhs THEN b ELSE OnesHalves],
                       cr |-> <<0, 0, 0, 0, 0, 0, 0, 0>>, ctr |-> ZeroHalves, lr |-> 0, pc |-> 1]]
    /\ mem = <<>>
    /\ resv = <<>>

DivAppend(op, isUnsigned, words) ==
    /\ req.op = "none"
    /\ ~DivUndefined(IF isUnsigned THEN "divwu" ELSE "divw", req.lhs, req.rhs)
    /\ buffer' = buffer \o words
    /\ req' = [req EXCEPT !.op = op, !.isUnsigned = isUnsigned]
    /\ UNCHANGED <<label, sites, cpu, mem, resv>>

DivQuotient32 ==
    \E u \in BOOLEAN : DivAppend("quotient32", u, quotient32(DivRhs, DivSrcDest, u))

DivRemainder32 ==
    \E u \in BOOLEAN : DivAppend("remainder32", u, remainder32(DivRhs, DivSrcDest, u))

DivFlexibleRemainder32 ==
    \E u \in BOOLEAN :
        DivAppend("flexibleRemainder32", u, flexibleRemainder32(DivRhs, DivSrcDest, u))

DivFlexibleDivMod32 ==
    \E u \in BOOLEAN :
        DivAppend("flexibleDivMod32", u, flexibleDivMod32(DivRhs, DivSrcDest, DivRemOutput, u))

DivExec == req.op # "none" /\ (StepReg(1) \/ StepMulDiv(1))

NextDiv ==
    DivQuotient32 \/ DivRemainder32 \/ DivFlexibleRemainder32 \/ DivFlexibleDivMod32 \/ DivExec

SpecDiv == InitDiv /\ [][NextDiv]_vars

\* The 32-bit quotient of the request's operands, as two halfwords.
DivQuotient ==
    IF req.isUnsigned THEN DivWordU(req.lhs, req.rhs) ELSE DivWordS(req.lhs, req.rhs)

\* The 32-bit remainder: dividend - quotient * divisor.
DivRemainder ==
    SubSeq(AddHalves(req.lhs,
                     ToHalves(NotV(FromHalves(MulHalves(<<0, 0>> \o DivQuotient, req.rhs)))), 1),
           3, 4)

LowWord(r) == SubSeq(cpu[1].regs[r], 3, 4)

\* quotient32 and remainder32 leave the quotient and the remainder in srcDest.
DivReference ==
    /\ (req.op = "quotient32" /\ Finished(1)) => LowWord(DivSrcDest) = DivQuotient
    /\ (req.op = "remainder32" /\ Finished(1)) => LowWord(DivSrcDest) = DivRemainder

\* C29: flexibleRemainder32 leaves in srcDest the remainder that remainder32
\* computes; flexibleDivMod32 leaves in srcDest the quotient that quotient32
\* computes and in remOutput that remainder, signed and unsigned.
FlexibleMatchesReference ==
    /\ (req.op = "flexibleRemainder32" /\ Finished(1)) => LowWord(DivSrcDest) = DivRemainder
    /\ (req.op = "flexibleDivMod32" /\ Finished(1)) =>
          /\ LowWord(DivSrcDest) = DivQuotient
          /\ LowWord(DivRemOutput) = DivRemainder

-----------------------------------------------------------------------------
(* Addition and subtraction that test for overflow.  The thread record of  *)
(* specification SpecOv has the field xer: the bits SO and OV of the XER.  *)

xs_mtxer(rs) == Ins("mtxer", "", rs, "", 0, 0, 0)

as_addo_rc(rd, ra, rb) == Ins("addo.", rd, ra, rb, 0, 0, 0)

as_subfo_rc(rd, ra, rb) == Ins("subfo.", rd, ra, rb, 0, 0, 0)

OvOps == {"mtxer", "addo.", "subfo."}

\* 1 if h is negative as a 64-bit integer.
SignOf(h) == IF h[1] >= 32768 THEN 1 ELSE 0

\* The bits LT, GT, EQ of the 64-bit result h, and the bit SO.
RecordField(h, so) == (IF SignOf(h) = 1 THEN 8 ELSE IF h = ZeroHalves THEN 2 ELSE 4) + so

\* One mtxer, addo. or subfo. of thread t, in 64-bit mode: OV is the
\* overflow of the 64-bit sum, SO is sticky, cr0 gets a copy of SO.
StepOv(t) ==
    LET i == buffer[cpu[t].pc]
        c == cpu[t]
        x == IF Op(i) = "subfo." THEN ToHalves(NotV(FromHalves(c.regs[Ra(i)])))
             ELSE c.regs[Ra(i)]
        y == c.regs[Rb(i)]
        sum == AddHalves(x, y, IF Op(i) = "subfo." THEN 1 ELSE 0)
        ov == IF SignOf(x) = SignOf(y) /\ SignOf(sum) # SignOf(x) THEN 1 ELSE 0
        so == IF ov = 1 THEN 1 ELSE c.xer.so
    IN  /\ Running(t)
        /\ Op(i) \in OvOps
        /\ cpu' = [cpu EXCEPT ![t] =
                     IF Op(i) = "mtxer"
                     THEN [c EXCEPT !.xer = [so |-> BitOf(c.regs[Ra(i)][3], 15),
                                             ov |-> BitOf(c.regs[Ra(i)][3], 14)],
                                    !.pc = c.pc + 1]
                     ELSE [c EXCEPT !.regs[Rt(i)] = sum,
                                    !.xer = [so |-> so, ov |-> ov],
                                    !.cr = SetCr0(c.cr, RecordField(sum, so)),
                                    !.pc = c.pc + 1]]
        /\ UNCHANGED <<buffer, label, sites, req, mem, resv>>

\* ma_addTestOverflow(Register rd, Register rs, Register rt, Label* overflow)
ma_addTestOverflow(buf, l, rd, rs, rt) ==
    LET head == <<xs_li(ScratchRegister, 0), xs_mtxer(ScratchRegister), as_addo_rc(rd, rs, rt)>>
        e == ma_bc_cr0(buf \o head, l, "SOBit", "LongJump")
    IN  Emitted(head \o e.words, e.label)

\* ma_addTestOverflow(Register rd, Register rs, Imm32 imm, Label* overflow)
ma_addTestOverflow_Imm32(buf, l, rd, rs, imm) ==
    LET li == ma_li_Imm32(SecondScratchReg, imm)
        e == ma_addTestOverflow(buf \o li, l, rd, rs, SecondScratchReg)
    IN  Emitted(li \o e.words, e.label)

\* ma_subTestOverflow(Register rd, Register rs, Register rt, Label* overflow)
ma_subTestOverflow(buf, l, rd, rs, rt) ==
    LET head == <<xs_li(ScratchRegister, 0), xs_mtxer(ScratchRegister), as_subfo_rc(rd, rt, rs)>>
        e == ma_bc_cr0(buf \o head, l, "SOBit", "LongJump")
    IN  Emitted(head \o e.words, e.label)

\* ma_subTestOverflow(Register rd, Register rs, Imm32 imm, Label* overflow)
ma_subTestOverflow_Imm32(buf, l, rd, rs, imm) ==
    IF imm # (-2147483647) - 1
    THEN ma_addTestOverflow_Imm32(buf, l, rd, rs, 0 - imm)
    ELSE LET li == ma_li_Imm32(ScratchRegister, imm)
             e == ma_subTestOverflow(buf \o li, l, rd, rs, ScratchRegister)
         IN  Emitted(li \o e.words, e.label)

\* branchAdd32(Overflow, Register src, Register dest, Label* overflow)
branchAdd32(buf, l, src, dest) == ma_addTestOverflow(buf, l, dest, dest, src)

\* branchAdd32(Overflow, Imm32 src, Register dest, Label* overflow)
branchAdd32_Imm32(buf, l, src, dest) == ma_addTestOverflow_Imm32(buf, l, dest, dest, src)

\* branchSub32(Overflow, Register src, Register dest, Label* overflow)
branchSub32(buf, l, src, dest) == ma_subTestOverflow(buf, l, dest, dest, src)

\* branchSub32(Overflow, Imm32 src, Register dest, Label* overflow)
branchSub32_Imm32(buf, l, src, dest) == ma_subTestOverflow_Imm32(buf, l, dest, dest, src)

-----------------------------------------------------------------------------
(* Specification SpecOv: an overflow-checked 32-bit addition or            *)
(* subtraction is assembled behind the bound label overflow and executed.  *)

\* 32-bit operands as integers: 0, 1, -1, 0x12345, INT32_MAX, INT32_MIN.
OvInts == {0, 1, -1, 74565, 2147483647, (-2147483647) - 1}

OvSrc == "r4"

OvDest == "r3"

OvRegs == {"r0", "r3", "r4", "r12"}

\* The operands are held sign-extended; debug tells whether MOZ_ASSERT is compiled in.
InitOv ==
    /\ buffer = <<as_nop>>
    /\ label = [bound |-> TRUE, used |-> FALSE, offset |-> 0]
    /\ sites = {}
    /\ \E a \in OvInts, so \in {0, 1}, debug \in BOOLEAN :
          /\ req = [op |-> "none", lhs |-> Imm32Halves(a), rhs |-> ZeroHalves,
                    debug |-> debug, crashed |-> FALSE]
          /\ cpu = [t \in {1} |->
                      [regs |-> [r \in OvRegs |-> IF r = OvDest THEN Imm32Halves(a)
                                                  ELSE OnesHalves],
                       cr |-> <<0, 0, 0, 0, 0, 0, 0, 0>>, ctr |-> ZeroHalves, lr |-> 0,
                       pc |-> 2, xer |-> [so |-> so, ov |-> 0]]]
    /\ mem = <<>>
    /\ resv = <<>>

\* The operation op on the register src, which holds b, or on the immediate b.
OvAppend(op, b, isReg, words) ==
    /\ req.op = "none"
    /\ ~req.crashed
    /\ buffer' = buffer \o words
    /\ req' = [req EXCEPT !.op = op, !.rhs = Imm32Halves(b)]
    /\ cpu' = IF isReg THEN [cpu EXCEPT ![1].regs[OvSrc] = Imm32Halves(b)] ELSE cpu
    /\ UNCHANGED <<label, sites, mem, resv>>

OvBranchAdd32 ==
    \E b \in OvInts : OvAppend("add", b, TRUE, branchAdd32(buffer, label, OvSrc, OvDest).words)

OvBranchAdd32Imm ==
    \E b \in OvInts : OvAppend("add", b, FALSE, branchAdd32_Imm32(buffer, label, b, OvDest).words)

OvBranchSub32 ==
    \E b \in OvInts : OvAppend("sub", b, TRUE, branchSub32(buffer, label, OvSrc, OvDest).words)

\* With INT32_MIN, ma_subTestOverflow(Register, Register, Register) is handed
\* ScratchRegister as rt, which its MOZ_ASSERT rejects in a debug build.
OvBranchSub32Imm ==
    \E b \in OvInts :
        IF req.debug /\ b = (-2147483647) - 1
        THEN /\ req.op = "none"
             /\ ~req.crashed
             /\ req' = [req EXCEPT !.crashed = TRUE]
             /\ UNCHANGED <<buffer, label, sites, cpu, mem, resv>>
        ELSE OvAppend("sub", b, FALSE, branchSub32_Imm32(buffer, label, b, OvDest).words)

\* The thread runs the sequence; a taken branch leaves it at the label, word 1.
OvExec == req.op # "none" /\ cpu[1].pc > 1 /\ (StepReg(1) \/ StepOv(1))

NextOv == OvBranchAdd32 \/ OvBranchAdd32Imm \/ OvBranchSub32 \/ OvBranchSub32Imm \/ OvExec

SpecOv == InitOv /\ [][NextOv]_vars

OvDone == req.op # "none" /\ cpu[1].pc \in {1, Len(buffer) + 1}

\* The exact sum or difference of the request's operands, as a 64-bit integer.
OvExact ==
    IF req.op = "add" THEN AddHalves(req.lhs, req.rhs, 0)
    ELSE AddHalves(req.lhs, ToHalves(NotV(FromHalves(req.rhs))), 1)

\* C30: the branch of branchAdd32 and branchSub32 with the Overflow condition is
\* taken iff the sum or difference of the sign-extended 32-bit operands does
\* not fit in int32, for a register and for an immediate operand.
BranchOnInt32Overflow == OvDone => (cpu[1].pc = 1 <=> OvExact # SignExtWord(OvExact))

====
